---- MODULE Spec2Model ----
(***************************************************************************)
(* Game-master state engine: the in-memory ledger, the reservation/offer   *)
(* registry and the command dispatcher of gm_cmds.py, driven by the        *)
(* on_overlay handler of the GameMaster agent, which applies the effects   *)
(* of every command after it was dispatched.                               *)
(***************************************************************************)
EXTENDS Integers, Sequences, FiniteSets, TLC

(* ------------------------------------------------------------------ *)
(* Bounds of the model                                                 *)
(* ------------------------------------------------------------------ *)
\* how many transaction ids new_txid may hand out
MaxTx == 2
\* the largest quantity an inventory of the ledger specification starts with
MaxQty == 2
\* the largest overlay sequence number a player process is sent
MaxSeq == 1
\* the largest quantity a row of the inventories table holds
MaxStock == 2
\* how many applications a loop of handle_craft is followed for
MaxCraft == 2

\* how many replies are enqueued in the runs of the outbox alone
MaxBox == 9

\* how many simulation steps of a player are followed
MaxWalk == 2

\* how many chats of a player and how much time the overlay runs follow
MaxChat == 3
MaxTime == 4

\* how many frames the UI thread makes and how many polls the client thread
MaxFrames == 4
MaxPolls == 3

(* ------------------------------------------------------------------ *)
(* Program constants                                                   *)
(* ------------------------------------------------------------------ *)
OFFER_TTL_MS == 5000
PROXIMITY_R == 220

Actors == {"A", "B", "C"}
Items == {"bread", "wood", "dough"}
NoActor == "-"

\* the values now_ms() returns in the model
Times == {0, OFFER_TTL_MS, OFFER_TTL_MS + 1}

\* positions of Player objects; NoPos: no Player object for that pid
NoPos == <<-1, -1>>
\* where the Player object of an actor is put on its first message, the
\* actors that hold movement keys and the positions these walk to
SpawnAt(p) == IF p = "B" THEN <<5132, 4176>> ELSE <<5000, 4000>>
Movers == {"B"}
Positions == {<<5132, 4176>>, <<5133, 4176>>}

(* ------------------------------------------------------------------ *)
(* Command payload values                                              *)
(* A quantity is any JSON value: int(v) either gives a number or raises*)
(* A bundle is any JSON value: a dict item -> quantity, or something    *)
(* else that is truthy (a string, a list)                              *)
(* ------------------------------------------------------------------ *)
Q(n) == [int |-> TRUE, n |-> n]
BadQ == [int |-> FALSE, n |-> 0]
EmptyMap == [i \in {} |-> Q(0)]
Dict(m) == [isdict |-> TRUE, m |-> m]
NonDict == [isdict |-> FALSE, m |-> EmptyMap]
EmptyDict == Dict(EmptyMap)
One(item, n) == Dict(item :> Q(n))

\* python truthiness of a payload value: a dict is falsy iff empty
Truthy(b) == (~b.isdict) \/ (DOMAIN b.m # {})

\* int(v) raises on this quantity
IntRaises(b) == \E k \in DOMAIN b.m : ~b.m[k].int

Max(a, b) == IF a >= b THEN a ELSE b

Min(a, b) == IF a <= b THEN a ELSE b

(* ------------------------------------------------------------------ *)
(* State                                                               *)
(* ------------------------------------------------------------------ *)
VARIABLES
    INVENTORY,   \* pid -> item -> qty (a missing key reads as 0)
    RESERVED,    \* txid -> [pid, items]
    PENDING,     \* txid -> offer
    TX,          \* the next value of the counter _TX
    clock,       \* the last value now_ms() returned
    pos,         \* players: pid -> position of its Player object
    job,         \* per pid, the on_overlay handler suspended in
                 \* _apply_effects_to_db: its status and the effects left
    OUTBOX,      \* the replies enqueued and not yet drained
    matched,     \* history: the txids whose accept has returned matched
    DEFENSE,     \* pid -> the defense window armed last (item, until)
    released,    \* history: the txids a direct call of release() has released
    unanswered,  \* history: the pids with a command on_overlay has raised on
    blows,       \* history: the attacks answered matched (weapon, effective
                 \* defense tag of the target, health delta)
    armed,       \* history: pid -> the item of its last counter answered
                 \* accepted and when that was
    DB,          \* the inventories table of gm.db: pid -> item -> qty (no
                 \* row reads as 0)
    enqueued,    \* history: the replies enqueue_reply was called with, in order
    drained,     \* history: the replies drain_replies has returned, in order
    SEQ,         \* player side: the _SeqRegistry (_by_consumer, _lock)
    caller,      \* player side: per thread, the call of seen() it is in
    applied,     \* history: how often seen() has recorded (consumer, pid, seq)
    db,          \* store: the inventories table of one actor (rows) and the
                 \* rows a ROLLBACK puts back (journal)
    co,          \* store: the coroutine in handle_craft / apply_recipe
    commits,     \* history: how many recipe applications the coroutine committed
    table,       \* db_sdk: the rows of one Model's table, in rowid order
    goc,         \* db_sdk: the coroutine in Model.get_or_create
    walker,      \* simulation: one Player object (x, y in thousandths, keys)
    walked,      \* history: how many simulation steps the walker has made
    given,       \* history: the overlay sequence numbers given to the player
    lapsed,      \* history: the overlays collect_overlays has found expired
    snapshot,    \* the overlays of the last world snapshot and its time
    EDGE,        \* mod_keypress_gate: the _EdgeState (_now, _last)
    _KEY_LATCH,  \* mod_keypress_gate: the latched keys
    ui,          \* the UI thread in ui_loop: place, keys read, frames made
    ran,         \* history: latches made, polls made, bodies run
    inventories, \* the inventories row of one (pid, item), as the store holds it
    adds,        \* the two coroutines in inv_add for that row
    seeded       \* history: the row before the two coroutines, Unseeded at first

\* the state of the game master, and that of a player process
gmVars == <<INVENTORY, RESERVED, PENDING, TX, clock, pos, job, OUTBOX, matched, DEFENSE,
            released, unanswered, blows, armed, DB, enqueued, drained>>
playerVars == <<SEQ, caller, applied>>
storeVars == <<db, co, commits>>
sdkVars == <<table, goc>>
simVars == <<walker, walked>>
ovVars == <<given, lapsed, snapshot>>
keyVars == <<EDGE, _KEY_LATCH, ui, ran>>
addVars == <<inventories, adds, seeded>>

vars == <<INVENTORY, RESERVED, PENDING, TX, clock, pos, job, OUTBOX, matched, DEFENSE,
          released, unanswered, blows, armed, DB, enqueued, drained, SEQ, caller, applied,
          db, co, commits, table, goc, walker, walked, given, lapsed, snapshot,
          EDGE, _KEY_LATCH, ui, ran, inventories, adds, seeded>>

(* ------------------------------------------------------------------ *)
(* Inventory ledger and reservations (gm_cmds.py)                      *)
(* ------------------------------------------------------------------ *)
\* {k: -int(v) for k, v in items.items()}
Neg(m) == [k \in DOMAIN m |-> Q(0 - m[k].n)]

\* {k: int(v) for k, v in items.items()}
Ints(m) == [k \in DOMAIN m |-> Q(m[k].n)]

\* {**a, **b}
Merge(a, b) == [k \in (DOMAIN a) \cup (DOMAIN b) |-> IF k \in DOMAIN b THEN b[k] ELSE a[k]]

\* inv_has: any exception (need is no dict, int(v) raises) gives False
inv_has(inv, pid, need) ==
    /\ need.isdict
    /\ ~IntRaises(need)
    /\ \A k \in DOMAIN need.m : inv[pid][k] >= need.m[k].n /\ need.m[k].n >= 0

\* inv_add: a key whose int(v) raises is skipped, the sum is clamped at 0
inv_add(inv, pid, delta) ==
    [inv EXCEPT ![pid] =
        [k \in Items |->
            IF k \in DOMAIN delta /\ delta[k].int
            THEN Max(0, inv[pid][k] + delta[k].n)
            ELSE inv[pid][k]]]

\* inv_bulk_add of db_models.py on the inventories table: inv_add item by
\* item, each quantity clamped at 0
inv_bulk_add(tab, pid, delta) ==
    [tab EXCEPT ![pid] =
        [k \in Items |->
            IF k \in DOMAIN delta THEN Max(0, tab[pid][k] + delta[k].n) ELSE tab[pid][k]]]

\* dict.pop(key, None) and dict[key] = value
Pop(d, key) == [k \in (DOMAIN d) \ {key} |-> d[k]]
Put(d, key, v) == [k \in (DOMAIN d) \cup {key} |-> IF k = key THEN v ELSE d[k]]

\* reserve gone wrong: the inv_has test is left out
reserve_unchecked(inv, res, pid, txid, items) ==
    IF ~items.isdict \/ IntRaises(items)
    THEN [ok |-> FALSE, inv |-> inv, res |-> res]
    ELSE [ok |-> TRUE,
          inv |-> inv_add(inv, pid, Neg(items.m)),
          res |-> Put(res, txid, [pid |-> pid, items |-> items.m])]

\* reserve: the result of the call and the world it leaves
reserve(inv, res, pid, txid, items) ==
    IF ~inv_has(inv, pid, items)
    THEN [ok |-> FALSE, inv |-> inv, res |-> res]
    ELSE [ok |-> TRUE,
          inv |-> inv_add(inv, pid, Neg(items.m)),
          res |-> Put(res, txid, [pid |-> pid, items |-> items.m])]

\* release: the inventory after RESERVED.pop(txid) was credited to its owner
release(inv, res, txid) ==
    IF txid \in DOMAIN res
    THEN inv_add(inv, res[txid].pid, res[txid].items)
    ELSE inv

\* consume: the inventory after the reservation was credited to grant_to
consume(inv, res, txid, grant_to) ==
    IF txid \in DOMAIN res
    THEN inv_add(inv, grant_to, res[txid].items)
    ELSE inv

\* in_range gone wrong: the radius itself is out of range
in_range_strict(a, b) ==
    /\ pos[a] # NoPos
    /\ pos[b] # NoPos
    /\ (pos[a][1] - pos[b][1]) * (pos[a][1] - pos[b][1])
       + (pos[a][2] - pos[b][2]) * (pos[a][2] - pos[b][2]) < PROXIMITY_R * PROXIMITY_R

\* distance(a, b) <= PROXIMITY_R; a pid without Player object is infinitely far
in_range(a, b) ==
    /\ pos[a] # NoPos
    /\ pos[b] # NoPos
    /\ (pos[a][1] - pos[b][1]) * (pos[a][1] - pos[b][1])
       + (pos[a][2] - pos[b][2]) * (pos[a][2] - pos[b][2]) <= PROXIMITY_R * PROXIMITY_R

\* Expired gone wrong: the offer lives one millisecond longer
Expired_late(off, now) == now > off.ts + off.ttl + 1

\* now > ts + ttl
Expired(off, now) == now > off.ts + off.ttl

\* sweep_expired_offers: every expired offer released and removed
RECURSIVE SweepInv(_, _, _)
SweepInv(inv, res, txs) ==
    IF txs = {} THEN inv
    ELSE LET t == CHOOSE x \in txs : \A y \in txs : x <= y
         IN SweepInv(release(inv, res, t), Pop(res, t), txs \ {t})

ExpiredTx(pend, now) == {t \in DOMAIN pend : Expired(pend[t], now)}

\* sweep_expired_offers gone wrong: the reservation is released and the
\* offer stays in PENDING
sweep_expired_offers_kept(w, now) ==
    LET gone == ExpiredTx(w.pend, now)
    IN [inv |-> SweepInv(w.inv, w.res, gone),
        res |-> [t \in (DOMAIN w.res) \ gone |-> w.res[t]],
        pend |-> w.pend]

sweep_expired_offers(w, now) ==
    LET gone == ExpiredTx(w.pend, now)
    IN [inv |-> SweepInv(w.inv, w.res, gone),
        res |-> [t \in (DOMAIN w.res) \ gone |-> w.res[t]],
        pend |-> [t \in (DOMAIN w.pend) \ gone |-> w.pend[t]]]


(* ------------------------------------------------------------------ *)
(* Handlers (gm_cmds.py).  A handler gets the world w = [inv, res,      *)
(* pend] the sweep left and gives the world it leaves, the counter, the *)
(* cmd_status it returns and the effects of that status.                *)
(* ------------------------------------------------------------------ *)
NoTx == 0

Status(status, reason, kind, txid, from) ==
    [status |-> status, reason |-> reason, kind |-> kind, txid |-> txid, from |-> from]

NoReply == Status("", "", "", NoTx, NoActor)

Result(inv, res, pend, tx, st, fx) ==
    [inv |-> inv, res |-> res, pend |-> pend, tx |-> tx, st |-> st, fx |-> fx]

\* a handler that returns st and touches nothing
Same(w, tx, st) == Result(w.inv, w.res, w.pend, tx, st, <<>>)

\* one entry of effects["inventory"], of effects["health"] or effects["skills"]
InvFx(pid, d) == [fx |-> "inventory", pid |-> pid, d |-> d]
DbFx(kind, pid) == [fx |-> kind, pid |-> pid, d |-> EmptyMap]

Offer(type, from, to, give, want, pay, ts) ==
    [type |-> type, from |-> from, to |-> to, give |-> give, want |-> want,
     pay |-> pay, ts |-> ts, ttl |-> OFFER_TTL_MS]

\* _do_make over the items of the command, in dict order; eff is
\* effects["inventory"][pid] so far
RECURSIVE MakeLoop(_, _, _, _, _)
MakeLoop(inv, pid, items, i, eff) ==
    IF i > Len(items)
    THEN [inv |-> inv, st |-> Status("matched", "", "make", NoTx, pid),
          fx |-> <<InvFx(pid, eff)>>]
    ELSE LET out_item == items[i][1]
             qty == items[i][2]
         IN IF ~qty.int \/ qty.n <= 0
            THEN [inv |-> inv, st |-> Status("error", "bad_qty", "", NoTx, pid), fx |-> <<>>]
            ELSE IF out_item = "bread"
            THEN LET need == Dict("dough" :> Q(qty.n))
                 IN IF ~inv_has(inv, pid, need)
                    THEN [inv |-> inv,
                          st |-> Status("rejected", "insufficient_inputs", "", NoTx, pid),
                          fx |-> <<>>]
                    ELSE MakeLoop(
                            inv_add(inv_add(inv, pid, Neg(need.m)), pid, out_item :> Q(qty.n)),
                            pid, items, i + 1,
                            [k \in (DOMAIN eff) \cup {"dough", out_item} |->
                                Q((IF k \in DOMAIN eff THEN eff[k].n ELSE 0)
                                  - (IF k = "dough" THEN qty.n ELSE 0)
                                  + (IF k = out_item THEN qty.n ELSE 0))])
            ELSE [inv |-> inv, st |-> Status("rejected", "unknown_recipe", "", NoTx, pid),
                  fx |-> <<>>]

_do_make(w, tx, pid, cmd) ==
    IF ~cmd.isdict \/ Len(cmd.items) = 0
    THEN Same(w, tx, Status("error", "bad_make", "", NoTx, pid))
    ELSE LET r == MakeLoop(w.inv, pid, cmd.items, 1, EmptyMap)
         IN Result(r.inv, w.res, w.pend, tx, r.st, r.fx)

_do_rep(w, tx, pid, cmd) ==
    IF ~cmd.ok
    THEN Same(w, tx, Status("error", "bad_rep", "", NoTx, pid))
    ELSE Same(w, tx, Status("matched", "", "rep", NoTx, pid))

\* new_txid gone wrong: the counter is read and not advanced
new_txid_reuse(tx) == [txid |-> tx, next |-> tx]

\* new_txid: the id handed out (t-<n> in hex, here n) and the counter after it
new_txid(tx) == [txid |-> tx, next |-> tx + 1]

\* _do_trade; dict(want) raises when want is no dict, after the reservation
\* was made, and the dispatcher turns that into status error
_do_trade(w, tx, pid, cmd, now) ==
    IF cmd.to = NoActor \/ ~Truthy(cmd.give) \/ ~Truthy(cmd.want)
    THEN Same(w, tx, Status("error", "bad_trade", "", NoTx, pid))
    ELSE IF ~inv_has(w.inv, pid, cmd.give)
    THEN Same(w, tx, Status("rejected", "insufficient_inventory", "", NoTx, pid))
    ELSE LET n == new_txid(tx)
             r == reserve(w.inv, w.res, pid, n.txid, cmd.give)
         IN IF ~r.ok
            THEN Same(w, n.next, Status("rejected", "reserve_failed", "", NoTx, pid))
            ELSE IF ~cmd.want.isdict
            THEN Result(r.inv, r.res, w.pend, n.next,
                        Status("error", "exception", "", NoTx, pid), <<>>)
            ELSE Result(r.inv, r.res,
                        Put(w.pend, n.txid,
                            Offer("trade", pid, cmd.to, cmd.give.m, cmd.want.m, EmptyMap, now)),
                        n.next, Status("accepted", "", "trade", n.txid, pid), <<>>)

_do_learn_teach(w, tx, pid, cmd, is_learn, now) ==
    IF cmd.to = NoActor \/ ~cmd.power \/ ~Truthy(cmd.pay)
    THEN Same(w, tx, Status("error", "bad_learn_teach", "", NoTx, pid))
    ELSE LET payer == IF is_learn THEN pid ELSE cmd.to
             kind == IF is_learn THEN "learn" ELSE "teach"
         IN IF ~inv_has(w.inv, payer, cmd.pay)
            THEN Same(w, tx, Status("rejected", "insufficient_inventory", "", NoTx, pid))
            ELSE LET n == new_txid(tx)
                     r == reserve(w.inv, w.res, payer, n.txid, cmd.pay)
                 IN IF ~r.ok
                    THEN Same(w, n.next, Status("rejected", "reserve_failed", "", NoTx, pid))
                    ELSE Result(r.inv, r.res,
                                Put(w.pend, n.txid,
                                    Offer(kind, pid, cmd.to, EmptyMap, EmptyMap, cmd.pay.m, now)),
                                n.next, Status("accepted", "", kind, n.txid, pid), <<>>)

_commit_trade(w, tx, txid, off, acceptor) ==
    LET proposer == off.from
        counterparty == off.to
    IN IF acceptor # counterparty
       THEN Same(w, tx, Status("rejected", "not_counterparty", "", txid, acceptor))
       ELSE IF ~in_range(proposer, counterparty)
       THEN Same(w, tx, Status("rejected", "not_in_range", "", txid, acceptor))
       ELSE IF ~inv_has(w.inv, counterparty, Dict(off.want))
       THEN Same(w, tx, Status("rejected", "insufficient_inventory", "", txid, acceptor))
       ELSE LET paid == inv_add(w.inv, counterparty, Neg(off.want))
                got == consume(paid, w.res, txid, counterparty)
                done == inv_add(got, proposer, off.want)
                eff_counterparty == Merge(Ints(off.give), Neg(off.want))
                fx == IF proposer = counterparty
                      THEN <<InvFx(counterparty, eff_counterparty)>>
                      ELSE <<InvFx(proposer, Ints(off.want)),
                             InvFx(counterparty, eff_counterparty)>>
            IN Result(done, Pop(w.res, txid), Pop(w.pend, txid), tx,
                      Status("matched", "", "trade", txid, acceptor), fx)

\* _commit_learn_teach gone wrong: the payment is granted to its payer
_commit_learn_teach_refund(w, tx, txid, off, acceptor) ==
    LET learner == IF off.type = "learn" THEN off.from ELSE off.to
        teacher == IF off.type = "learn" THEN off.to ELSE off.from
    IN IF acceptor \notin {learner, teacher}
       THEN Same(w, tx, Status("rejected", "not_counterparty", "", txid, acceptor))
       ELSE IF ~in_range(learner, teacher)
       THEN Same(w, tx, Status("rejected", "not_in_range", "", txid, acceptor))
       ELSE LET pay_to == IF txid \in DOMAIN w.res /\ w.res[txid].pid = learner
                          THEN learner ELSE teacher
            IN Result(consume(w.inv, w.res, txid, pay_to), Pop(w.res, txid),
                      Pop(w.pend, txid), tx,
                      Status("matched", "", off.type, txid, acceptor),
                      <<DbFx("skills", learner)>>)

_commit_learn_teach(w, tx, txid, off, acceptor) ==
    LET learner == IF off.type = "learn" THEN off.from ELSE off.to
        teacher == IF off.type = "learn" THEN off.to ELSE off.from
    IN IF acceptor \notin {learner, teacher}
       THEN Same(w, tx, Status("rejected", "not_counterparty", "", txid, acceptor))
       ELSE IF ~in_range(learner, teacher)
       THEN Same(w, tx, Status("rejected", "not_in_range", "", txid, acceptor))
       ELSE LET pay_to == IF txid \in DOMAIN w.res /\ w.res[txid].pid = learner
                          THEN teacher ELSE learner
            IN Result(consume(w.inv, w.res, txid, pay_to), Pop(w.res, txid),
                      Pop(w.pend, txid), tx,
                      Status("matched", "", off.type, txid, acceptor),
                      <<DbFx("skills", learner)>>)

\* _do_accept gone wrong: the offer is looked up without the membership test,
\* and PENDING[txid] raises for a txid that is not there
_do_accept_nocheck(w, tx, pid, cmd, now) ==
    IF cmd.txid = NoTx \/ cmd.txid \notin DOMAIN w.pend
    THEN Same(w, tx, Status("error", "exception", "", NoTx, pid))
    ELSE LET off == w.pend[cmd.txid]
         IN IF Expired(off, now)
            THEN Result(release(w.inv, w.res, cmd.txid), Pop(w.res, cmd.txid),
                        Pop(w.pend, cmd.txid), tx,
                        Status("rejected", "expired", "", cmd.txid, pid), <<>>)
            ELSE IF off.type = "trade"
            THEN _commit_trade(w, tx, cmd.txid, off, pid)
            ELSE _commit_learn_teach(w, tx, cmd.txid, off, pid)

\* _do_accept; txid = NoTx stands for a txid that is no string
_do_accept(w, tx, pid, cmd, now) ==
    IF cmd.txid = NoTx \/ cmd.txid \notin DOMAIN w.pend
    THEN Same(w, tx, Status("error", "unknown_txid", "", NoTx, pid))
    ELSE LET off == w.pend[cmd.txid]
         IN IF Expired(off, now)
            THEN Result(release(w.inv, w.res, cmd.txid), Pop(w.res, cmd.txid),
                        Pop(w.pend, cmd.txid), tx,
                        Status("rejected", "expired", "", cmd.txid, pid), <<>>)
            ELSE IF off.type = "trade"
            THEN _commit_trade(w, tx, cmd.txid, off, pid)
            ELSE _commit_learn_teach(w, tx, cmd.txid, off, pid)

\* the combat block of resources.json; multipliers are counted in halves
COMBAT ==
    [items |-> [i \in {"knife", "plate_iron", "herb"} |->
                    IF i = "knife"
                    THEN [attack |-> "pierce", defense |-> "", damage |-> 5]
                    ELSE IF i = "herb"
                    THEN [attack |-> "", defense |-> "", damage |-> -1]
                    ELSE [attack |-> "", defense |-> "plate", damage |-> 0]],
     opposition |-> [a \in {"pierce"} |-> [d \in {"none", "plate"} |->
                    IF d = "none" THEN 2 ELSE 1]],
     base_damage |-> 1,
     attack_power |-> FALSE,
     defense_power |-> TRUE]

_req_defense == COMBAT.defense_power

\* _defense_tag gone wrong: an item without a defense tag gets its attack tag
_defense_tag_any(item) ==
    IF item \in DOMAIN COMBAT.items
    THEN IF COMBAT.items[item].defense # ""
         THEN COMBAT.items[item].defense
         ELSE IF COMBAT.items[item].attack # "" THEN COMBAT.items[item].attack ELSE "none"
    ELSE "none"

_defense_tag(item) ==
    IF item \in DOMAIN COMBAT.items /\ COMBAT.items[item].defense # ""
    THEN COMBAT.items[item].defense
    ELSE "none"

\* a field that is no string
NoStr == "?"
DEFENSE_MS == 1000
NoWindow == [item |-> NoStr, until |-> 0]
NeverArmed == [item |-> NoStr, at |-> 0]

\* _do_counter: the status it returns
_do_counter(w, tx, pid, cmd) ==
    IF cmd.target = NoStr \/ cmd.with = NoStr
    THEN Same(w, tx, Status("error", "bad_counter", "", NoTx, pid))
    ELSE IF _req_defense /\ _defense_tag(cmd.with) = "none"
    THEN Same(w, tx, Status("rejected", "invalid_defense", "", NoTx, pid))
    ELSE Same(w, tx, Status("accepted", "", "counter", NoTx, pid))

\* Armed gone wrong: the window lasts one ms less
Armed_short(def, pid, cmd, now) ==
    IF cmd.target # NoStr /\ cmd.with # NoStr
       /\ ~(_req_defense /\ _defense_tag(cmd.with) = "none")
    THEN [def EXCEPT ![pid] = [item |-> cmd.with, until |-> now + DEFENSE_MS - 1]]
    ELSE def

\* _do_counter: DEFENSE as it leaves it
Armed(def, pid, cmd, now) ==
    IF cmd.target # NoStr /\ cmd.with # NoStr
       /\ ~(_req_defense /\ _defense_tag(cmd.with) = "none")
    THEN [def EXCEPT ![pid] = [item |-> cmd.with, until |-> now + DEFENSE_MS]]
    ELSE def

_req_attack == COMBAT.attack_power

\* the attack tag of an item, "" (None) if it has none
_attack_tag(item) ==
    IF item \in DOMAIN COMBAT.items THEN COMBAT.items[item].attack ELSE ""

\* the damage of the item if the table gives one (0: it gives none), or
\* the base damage of the table
_base_damage(item) ==
    IF item \in DOMAIN COMBAT.items /\ COMBAT.items[item].damage # 0
    THEN COMBAT.items[item].damage
    ELSE COMBAT.base_damage

\* multipliers are counted in halves: 2 is 1.0, what a missing entry gives
_opposition_mult(atk, dfn) ==
    IF atk \in DOMAIN COMBAT.opposition /\ dfn \in DOMAIN COMBAT.opposition[atk]
    THEN COMBAT.opposition[atk][dfn]
    ELSE 2

\* Round gone wrong: a half goes up
Round_up(h) == (h + 1) \div 2

\* int(round(h / 2)) of python: a half goes to the even neighbour
Round(h) ==
    IF h % 2 = 0 THEN h \div 2
    ELSE IF (h \div 2) % 2 = 0 THEN h \div 2 ELSE (h \div 2) + 1

\* _defense_item_if_active gone wrong: the expiry of the window is not looked at
_defense_item_if_active_stale(def, pid, now) ==
    IF def[pid] = NoWindow THEN NoStr ELSE def[pid].item

\* the item of the defense window of pid, NoStr (None) if it has none or the
\* window is over
_defense_item_if_active(def, pid, now) ==
    IF def[pid] = NoWindow THEN NoStr
    ELSE IF now > def[pid].until THEN NoStr
    ELSE def[pid].item

\* effects["health"] and effects["combat"] of an attack
HealthFx(pid, delta, atk, dfn, mult) ==
    [fx |-> "health", pid |-> pid, d |-> [k \in {"health"} |-> delta],
     combat |-> [attack |-> atk, defense |-> dfn, mult |-> mult]]

\* _do_attack gone wrong: the requirement of a tagged defense is enforced
\* on the target of an attack
_do_attack_guarded(w, tx, pid, cmd, now) ==
    IF cmd.target = NoStr \/ cmd.with = NoStr
    THEN Same(w, tx, Status("error", "bad_attack", "", NoTx, pid))
    ELSE IF ~in_range(pid, cmd.target)
    THEN Same(w, tx, Status("rejected", "not_in_range", "", NoTx, pid))
    ELSE IF _req_attack /\ _attack_tag(cmd.with) = ""
    THEN Same(w, tx, Status("rejected", "invalid_weapon", "", NoTx, pid))
    ELSE IF _req_defense /\ _defense_item_if_active(DEFENSE, cmd.target, now) = NoStr
    THEN Same(w, tx, Status("rejected", "invalid_defense", "", NoTx, pid))
    ELSE LET dfn_tag == _defense_tag(_defense_item_if_active(DEFENSE, cmd.target, now))
             eff_atk == IF _attack_tag(cmd.with) = "" THEN "none"
                        ELSE _attack_tag(cmd.with)
             damage == Max(0, Round(_base_damage(cmd.with) * _opposition_mult(eff_atk, dfn_tag)))
         IN Result(w.inv, w.res, w.pend, tx,
                   Status("matched", "", "attack", NoTx, pid),
                   <<HealthFx(cmd.target, -damage, eff_atk, dfn_tag,
                              _opposition_mult(eff_atk, dfn_tag))>>)

\* _do_attack: the status it returns
_do_attack(w, tx, pid, cmd, now) ==
    IF cmd.target = NoStr \/ cmd.with = NoStr
    THEN Same(w, tx, Status("error", "bad_attack", "", NoTx, pid))
    ELSE IF ~in_range(pid, cmd.target)
    THEN Same(w, tx, Status("rejected", "not_in_range", "", NoTx, pid))
    ELSE IF _req_attack /\ _attack_tag(cmd.with) = ""
    THEN Same(w, tx, Status("rejected", "invalid_weapon", "", NoTx, pid))
    ELSE LET active_def_item == _defense_item_if_active(DEFENSE, cmd.target, now)
             dfn_tag == IF active_def_item = NoStr THEN "none"
                        ELSE _defense_tag(active_def_item)
             eff_atk == IF _attack_tag(cmd.with) = "" THEN "none"
                        ELSE _attack_tag(cmd.with)
             damage == Max(0, Round(_base_damage(cmd.with) * _opposition_mult(eff_atk, dfn_tag)))
         IN Result(w.inv, w.res, w.pend, tx,
                   Status("matched", "", "attack", NoTx, pid),
                   <<HealthFx(cmd.target, -damage, eff_atk, dfn_tag,
                              _opposition_mult(eff_atk, dfn_tag))>>)

\* _do_attack: DEFENSE as it leaves it, a window that is over popped
Disarmed(def, pid, cmd, now) ==
    IF /\ cmd.target # NoStr /\ cmd.with # NoStr
       /\ in_range(pid, cmd.target)
       /\ ~(_req_attack /\ _attack_tag(cmd.with) = "")
       /\ def[cmd.target] # NoWindow
       /\ now > def[cmd.target].until
    THEN [def EXCEPT ![cmd.target] = NoWindow]
    ELSE def

\* the defense tag an attack on pid at time now meets: the tag of the item
\* of its window while the window lasts, "none" otherwise
EffectiveTag(def, pid, now) ==
    IF def[pid] # NoWindow /\ now <= def[pid].until
    THEN _defense_tag(def[pid].item)
    ELSE "none"

\* _do_cancel gone wrong: the owner test is left out
_do_cancel_anyone(w, tx, pid, cmd) ==
    IF cmd.txid = NoTx \/ cmd.txid \notin DOMAIN w.pend
    THEN Same(w, tx, Status("error", "unknown_txid", "", NoTx, pid))
    ELSE Result(release(w.inv, w.res, cmd.txid), Pop(w.res, cmd.txid),
                Pop(w.pend, cmd.txid), tx,
                Status("matched", "", "cancel", cmd.txid, pid), <<>>)

_do_cancel(w, tx, pid, cmd) ==
    IF cmd.txid = NoTx \/ cmd.txid \notin DOMAIN w.pend
    THEN Same(w, tx, Status("error", "unknown_txid", "", NoTx, pid))
    ELSE IF w.pend[cmd.txid].from # pid
    THEN Same(w, tx, Status("rejected", "not_owner", "", cmd.txid, pid))
    ELSE Result(release(w.inv, w.res, cmd.txid), Pop(w.res, cmd.txid),
                Pop(w.pend, cmd.txid), tx,
                Status("matched", "", "cancel", cmd.txid, pid), <<>>)


(* ------------------------------------------------------------------ *)
(* Dispatcher (gm_cmds.py) and effects applier (agent.py)              *)
(* ------------------------------------------------------------------ *)
World == [inv |-> INVENTORY, res |-> RESERVED, pend |-> PENDING]

\* the handler of cmd.kind, on the world the sweep left; now is what now_ms()
\* returns inside the handler
Dispatch(w, tx, pid, cmd, now) ==
    CASE cmd.kind = "make" -> _do_make(w, tx, pid, cmd)
      [] cmd.kind = "rep" -> _do_rep(w, tx, pid, cmd)
      [] cmd.kind = "trade" -> _do_trade(w, tx, pid, cmd, now)
      [] cmd.kind = "accept" -> _do_accept(w, tx, pid, cmd, now)
      [] cmd.kind = "cancel" -> _do_cancel(w, tx, pid, cmd)
      [] cmd.kind = "attack" -> _do_attack(w, tx, pid, cmd, now)
      [] cmd.kind = "counter" -> _do_counter(w, tx, pid, cmd)
      [] cmd.kind = "learn" -> _do_learn_teach(w, tx, pid, cmd, TRUE, now)
      [] cmd.kind = "teach" -> _do_learn_teach(w, tx, pid, cmd, FALSE, now)
      [] OTHER -> Same(w, tx, Status("error", "unknown_kind", "", NoTx, pid))

\* process_structured_cmd: the sweep reads the clock as t1, the handler as t2
\* (cmd.get("kind") or "").lower() runs after the sweep and outside the try:
\* a kind that is no string and not falsy has no lower() and the call raises
Raised(pid) == Status("raise", "AttributeError", "", NoTx, pid)

process_structured_cmd(w, tx, pid, cmd, t1, t2) ==
    IF cmd.kind = NoStr
    THEN Same(sweep_expired_offers(w, t1), tx, Raised(pid))
    ELSE Dispatch(sweep_expired_offers(w, t1), tx, pid, cmd, t2)

\* mirror gone wrong: a key that falls to 0 or below is kept
mirror_keep(inv, pid, d) ==
    [inv EXCEPT ![pid] =
        [k \in Items |-> IF k \in DOMAIN d THEN inv[pid][k] + d[k].n ELSE inv[pid][k]]]

\* _apply_effects_to_db, the in-memory part for one entry of
\* effects["inventory"]: the delta is added to GM_INV, a key that falls to 0
\* or below is dropped
mirror(inv, pid, d) ==
    [inv EXCEPT ![pid] =
        [k \in Items |->
            IF k \in DOMAIN d
            THEN (IF inv[pid][k] + d[k].n <= 0 THEN 0 ELSE inv[pid][k] + d[k].n)
            ELSE inv[pid][k]]]

(* ------------------------------------------------------------------ *)
(* Sequence registry of a player process (player_helpers.py)           *)
(* ------------------------------------------------------------------ *)
\* the consumers of the overlay stream, the threads that call seen() and the
\* sequence numbers they call it with
Consumers == {"chat_fold", "act_on_some_key"}
Threads == {1, 2}
NoThread == 0
Seqs == 0 .. MaxSeq

\* _SeqRegistry(): no watermark, the lock free
NewRegistry ==
    [by_consumer |-> [c \in Consumers |-> [a \in {} |-> 0]], lock |-> NoThread]

\* self._by_consumer[consumer].get(pid, -1)
LastSeen(reg, c, pid) ==
    IF pid \in DOMAIN reg.by_consumer[c] THEN reg.by_consumer[c][pid] ELSE -1

\* seen gone wrong: only a smaller sequence number counts as seen
IsSeen_below(seq, last) == seq < last

\* if seq <= last: return True
IsSeen(seq, last) == seq <= last

\* seen gone wrong: one watermark per pid, shared by the consumers
Record_shared(reg, c, pid, seq) ==
    [reg EXCEPT !.by_consumer = [d \in Consumers |-> Put(reg.by_consumer[d], pid, seq)]]

\* self._by_consumer[consumer][pid] = seq
Record(reg, c, pid, seq) ==
    [reg EXCEPT !.by_consumer[c] = Put(reg.by_consumer[c], pid, seq)]

\* seen gone wrong: the body runs without the lock
LockFree_ignored(reg) == TRUE

\* with self._lock: the lock can be taken
LockFree(reg) == reg.lock = NoThread

\* a thread outside seen(), and one inside at the line it executes next
NoCall == [pc |-> "out", consumer |-> "", pid |-> NoActor, seq |-> -1, last |-> -1, ret |-> FALSE]
InCall(pc, c, pid, seq, last, ret) ==
    [pc |-> pc, consumer |-> c, pid |-> pid, seq |-> seq, last |-> last, ret |-> ret]

(* ------------------------------------------------------------------ *)
(* Inventory store and recipes (db_models.py, db_sdk.py).  The store   *)
(* is the inventories table of one actor behind one connection: rows   *)
(* is what the connection reads and writes, journal is what a ROLLBACK *)
(* puts back, open says a transaction was begun and not yet ended.     *)
(* ------------------------------------------------------------------ *)
StoreItems == {"wood", "plank"}
NoRow == [row |-> FALSE, qty |-> 0]
Row(q) == [row |-> TRUE, qty |-> q]
EmptyTable == [it \in StoreItems |-> NoRow]
NewStore == [rows |-> EmptyTable, journal |-> EmptyTable, open |-> FALSE]

\* what is durable, and what another connection reads
Committed(d) == IF d.open THEN d.journal ELSE d.rows

\* db.execute("BEGIN IMMEDIATE")
Begin(d) == [rows |-> d.rows, journal |-> d.rows, open |-> TRUE]
\* db.commit()
Commit(d) == [rows |-> d.rows, journal |-> d.rows, open |-> FALSE]
\* Rollback gone wrong: the transaction is ended and its writes are kept
Rollback_kept(d) == [rows |-> d.rows, journal |-> d.rows, open |-> FALSE]
\* db.execute("ROLLBACK")
Rollback(d) == [rows |-> d.journal, journal |-> d.journal, open |-> FALSE]

\* SELECT qty ... : int(row["qty"]) if row else 0
inv_get_qty(d, it) == IF d.rows[it].row THEN d.rows[it].qty ELSE 0
\* UPDATE inventories SET qty=? / INSERT INTO inventories
SetQty(d, it, q) == [d EXCEPT !.rows[it] = Row(q)]

\* a recipe as apply_recipe gets it: three maps item -> JSON value, each
\* a sequence of pairs in the order of the dict
Recipe(req, con, pro) == [requires |-> req, consumes |-> con, produces |-> pro]
NoRecipe == Recipe(<<>>, <<>>, <<>>)

\* _to_posint_map: None if int(v) raises on one value
NoMap == [none |-> TRUE, m |-> <<>>]
_to_posint_map(d) ==
    IF \E i \in 1 .. Len(d) : ~d[i][2].int
    THEN NoMap
    ELSE [none |-> FALSE, m |-> [i \in 1 .. Len(d) |-> <<d[i][1], d[i][2].n>>]]

\* the checks apply_recipe makes before it touches the store
invalid_recipe(rec) ==
    LET requires == _to_posint_map(rec.requires)
        consumes == _to_posint_map(rec.consumes)
        produces == _to_posint_map(rec.produces)
    IN \/ requires.none \/ consumes.none \/ produces.none
       \/ \E i \in 1 .. Len(consumes.m) : consumes.m[i][2] < 0
       \/ \E i \in 1 .. Len(produces.m) : produces.m[i][2] < 0

\* the places apply_recipe awaits at, in program order
Order == <<"pre", "begin", "recheck", "consume", "produce", "commit">>
\* the map the loop of a place runs over
MapOf(rec, pc) ==
    IF pc \in {"pre", "recheck"} THEN _to_posint_map(rec.requires).m
    ELSE IF pc = "consume" THEN _to_posint_map(rec.consumes).m
    ELSE IF pc = "produce" THEN _to_posint_map(rec.produces).m
    ELSE <<>>

\* the loops skip quantities <= 0 without awaiting: the first index from i
\* on whose quantity is positive, Len + 1 if there is none
RECURSIVE NextPos(_, _)
NextPos(m, i) ==
    IF i > Len(m) THEN Len(m) + 1
    ELSE IF m[i][2] > 0 THEN i
    ELSE NextPos(m, i + 1)

\* where the coroutine awaits next when it enters place number k
RECURSIVE First(_, _)
First(rec, k) ==
    IF Order[k] \in {"begin", "commit"}
    THEN [pc |-> Order[k], i |-> 0]
    ELSE LET j == NextPos(MapOf(rec, Order[k]), 1)
         IN IF j <= Len(MapOf(rec, Order[k]))
            THEN [pc |-> Order[k], i |-> j]
            ELSE First(rec, k + 1)

PlaceNo(pc) == CHOOSE k \in 1 .. Len(Order) : Order[k] = pc

\* where it awaits next after the await for item i of place pc
After(rec, pc, i) ==
    IF pc \in {"begin", "commit"}
    THEN First(rec, PlaceNo(pc) + 1)
    ELSE LET j == NextPos(MapOf(rec, pc), i + 1)
         IN IF j <= Len(MapOf(rec, pc))
            THEN [pc |-> pc, i |-> j]
            ELSE First(rec, PlaceNo(pc) + 1)

\* the results of apply_recipe
Ret(ok, why) == [ok |-> ok, why |-> why]
NoRet == Ret(FALSE, "")

\* the cmd_status of handle_craft
CraftReply(status, reason, crafted) ==
    [status |-> status, reason |-> reason, crafted |-> crafted]
NoCraftReply == CraftReply("", "", 0)

\* the coroutine: pc is where it awaits, rec the recipe, i the index in
\* the loop of that place, ret what apply_recipe returned; mode says who
\* called apply_recipe: "apply" a direct call, "max" and "times" the two
\* loops of handle_craft, with n crafted and left still to do
NoCraft ==
    [pc |-> "idle", rec |-> NoRecipe, i |-> 0, ret |-> NoRet,
     mode |-> "", n |-> 0, left |-> 0, reply |-> NoCraftReply]

(* ------------------------------------------------------------------ *)
(* Inputs                                                              *)
(* ------------------------------------------------------------------ *)
\* the inventory a joining actor is primed with from the store
StartInv ==
    [p \in Actors |->
        [k \in Items |->
            CASE p = "A" /\ k \in {"bread", "dough"} -> 1
              [] p = "B" /\ k = "wood" -> 1
              [] OTHER -> 0]]

\* the actors that propose, and the one that only answers offers
Proposers == {"A", "B"}
BadGive == {NonDict, One("wood", -1)}
BadWant == {NonDict, Dict("wood" :> BadQ)}
BadPay == {EmptyDict, NonDict}
TxInputs == 0 .. (MaxTx + 1)
MakeInputs == {<<>>, <<<<"bread", Q(1)>>>>, <<<<"wood", Q(1)>>>>,
               <<<<"bread", Q(1)>>, <<"wood", Q(1)>>>>, <<<<"bread", Q(0)>>>>,
               <<<<"bread", BadQ>>>>}

MakeCmds == {[kind |-> "make", isdict |-> TRUE, items |-> i] : i \in MakeInputs}
RepCmds == {[kind |-> "rep", ok |-> b] : b \in BOOLEAN}
TradeCmd(t, g, x) == [kind |-> "trade", to |-> t, give |-> g, want |-> x]
TradeCmds ==
    {TradeCmd(t, One("bread", 1), One("wood", 1)) : t \in Proposers}
    \cup {TradeCmd(t, One("wood", 1), One("bread", 1)) : t \in Proposers}
    \cup {TradeCmd(t, One("bread", 1), One("bread", 1)) : t \in Proposers}
    \cup {TradeCmd(NoActor, One("bread", 1), One("wood", 1))}
    \cup {TradeCmd("B", g, One("wood", 1)) : g \in BadGive}
    \cup {TradeCmd("B", One("bread", 1), x) : x \in BadWant}
AcceptCmds == {[kind |-> "accept", txid |-> t] : t \in TxInputs}
CancelCmds == {[kind |-> "cancel", txid |-> t] : t \in TxInputs}
SkillCmd(k, t, w, y) == [kind |-> k, to |-> t, power |-> w, pay |-> y]
SkillCmds(k) ==
    {SkillCmd(k, t, TRUE, One("bread", 1)) : t \in Actors}
    \cup {SkillCmd(k, NoActor, TRUE, One("bread", 1)), SkillCmd(k, "B", FALSE, One("bread", 1))}
    \cup {SkillCmd(k, "B", TRUE, y) : y \in BadPay}
LearnCmds == SkillCmds("learn")
TeachCmds == SkillCmds("teach")
OtherCmds == {[kind |-> "dance"]}
\* a kind that is missing, and one that is a number
KindCmds == {[kind |-> ""], [kind |-> NoStr]}
CounterCmds ==
    {[kind |-> "counter", target |-> t, with |-> i] :
        t \in {"A", NoStr}, i \in {"plate_iron", "knife", NoStr}}

\* attack commands: with a weapon of the table, with an item that has no
\* attack tag, and with no string for a field
AttackCmds ==
    {[kind |-> "attack", target |-> t, with |-> i] :
        t \in {"A", "B", NoStr}, i \in {"knife", "plate_iron", NoStr}}

(* ------------------------------------------------------------------ *)
(* Actions                                                             *)
(* ------------------------------------------------------------------ *)
NoCmd == [kind |-> ""]
Idle == [st |-> NoReply, fx |-> <<>>, cmd |-> NoCmd]

\* an entry of OUTBOX: the status enqueued, tagged with the command it answers
Sent(st, cmd) == [st |-> st, cmd |-> cmd]

(* ------------------------------------------------------------------ *)
(* Simulation (agent.py): one Player object, its keys and its moves.   *)
(* Lengths are in thousandths of a map unit.                           *)
(* ------------------------------------------------------------------ *)
MAP_W == 10000
MAP_H == 8000
PLAYER_RADIUS == 10
PLAYER_SPEED == 4

\* 1 / sqrt(2) of PLAYER_SPEED, in thousandths
DiagStep == 2828

Keys == {"w", "a", "s", "d"}
\* player.overlay = None
NoOverlay == [seq |-> 0, t_expire |-> -1]
NoWalker == [x |-> -1, y |-> -1, keys |-> {}, overlay |-> NoOverlay, ov_seq |-> 0]

\* clamp gone wrong: the upper bound is left out
clamp_open(v, lo, hi) == Max(lo, v)

clamp(v, lo, hi) == Max(lo, Min(hi, v))

\* Player.__init__ for idx 0: the centre of the map plus a jitter, clamped
Player(jx, jy) ==
    [x |-> clamp((MAP_W \div 2) * 1000 + jx, PLAYER_RADIUS * 1000,
                 (MAP_W - PLAYER_RADIUS) * 1000),
     y |-> clamp((MAP_H \div 2) * 1000 + jy, PLAYER_RADIUS * 1000,
                 (MAP_H - PLAYER_RADIUS) * 1000),
     keys |-> {}, overlay |-> NoOverlay, ov_seq |-> 0]

\* apply_inputs for one player with dt_ms = SIM_STEP_MS (step_scale 1)
apply_inputs(pl) ==
    LET dx == (IF "a" \in pl.keys THEN -1 ELSE 0) + (IF "d" \in pl.keys THEN 1 ELSE 0)
        dy == (IF "w" \in pl.keys THEN -1 ELSE 0) + (IF "s" \in pl.keys THEN 1 ELSE 0)
        len == IF dx # 0 /\ dy # 0 THEN DiagStep ELSE PLAYER_SPEED * 1000
    IN [pl EXCEPT
          !.x = clamp(pl.x + dx * len, PLAYER_RADIUS * 1000, (MAP_W - PLAYER_RADIUS) * 1000),
          !.y = clamp(pl.y + dy * len, PLAYER_RADIUS * 1000, (MAP_H - PLAYER_RADIUS) * 1000)]

\* on_overlay with a chat: the next overlay sequence number, and the overlay
\* that ends ttl after now
chat(pl, ttl, now) ==
    [pl EXCEPT !.ov_seq = pl.ov_seq + 1,
               !.overlay = [seq |-> pl.ov_seq + 1, t_expire |-> now + ttl]]

\* collect_overlays gone wrong: an overlay is shown at its expiry time
collect_overlays_stale(pl, now) ==
    IF pl.overlay # NoOverlay /\ pl.overlay.t_expire >= now
    THEN [out |-> {pl.overlay}, pl |-> pl]
    ELSE [out |-> {}, pl |-> [pl EXCEPT !.overlay = NoOverlay]]

\* collect_overlays for one player: the overlays it gives and the player
\* as it leaves it
collect_overlays(pl, now) ==
    IF pl.overlay # NoOverlay /\ pl.overlay.t_expire > now
    THEN [out |-> {pl.overlay}, pl |-> pl]
    ELSE [out |-> {}, pl |-> [pl EXCEPT !.overlay = NoOverlay]]

NoSnapshot == [at |-> -1, overlays |-> {}]

(* ------------------------------------------------------------------ *)
(* inv_add (db_models.py), one statement of the store at a time        *)
(* ------------------------------------------------------------------ *)

\* the two _apply_effects_to_db coroutines
Coroutines == {"c1", "c2"}

\* the deltas of the effects
Deltas == {-1, 1, 2}

\* a coroutine in inv_add: the statement it awaits, its delta, the row
\* its find gave, and (history) whether its find ran between the find
\* and the write of the other coroutine
NoAdd == [pc |-> "idle", delta |-> 0, row |-> NoRow, met |-> FALSE]
Unseeded == [row |-> FALSE, qty |-> -1]

\* new_q = max(0, int(row[0]["qty"]) + int(delta)), and qty=max(0, int(delta))
\* of the insert
new_q(row, delta) == Max(0, (IF row.row THEN row.qty ELSE 0) + delta)

(* ------------------------------------------------------------------ *)
(* Keypress gate (hackathon_utils/mod_keypress_gate.py)                *)
(* ------------------------------------------------------------------ *)

\* the key names of the keymap
KeyNames == {"e"}

\* _EdgeState.update_pressed, under the lock
update_pressed(e, pressed_names) == [_last |-> e._now, _now |-> pressed_names]

\* _EdgeState.edge_down, under the lock
edge_down(e, name) == name \in e._now /\ name \notin e._last

\* latch_keypress, under the lock
latch_keypress(l, name) == [l EXCEPT ![name] = TRUE]

\* consume_latch gone wrong: the latch is read and left set
consume_latch_kept(l, name) == [v |-> l[name], latch |-> l]

\* consume_latch, under the lock: the value read, and the latch after it
consume_latch(l, name) ==
    [v |-> l[name], latch |-> IF l[name] THEN [l EXCEPT ![name] = FALSE] ELSE l]

(* ------------------------------------------------------------------ *)
(* db_sdk: one Model with a TEXT primary key and a column with a       *)
(* default (the State model of test_db_sdk.py)                         *)
(* ------------------------------------------------------------------ *)

AgentIds == {"agent_123", "agent_456"}
Offers == {0, 1}

\* keyword arguments: column -> value, for some of the columns
NoArgs == [c \in {} |-> 0]
KeyArgs == { [c \in {"agent_id"} |-> k] : k \in AgentIds }
OfferArgs == { [c \in {"current_offer"} |-> v] : v \in Offers }
BothArgs ==
    { [c \in {"agent_id", "current_offer"} |->
          IF c = "agent_id" THEN k ELSE v] : k \in AgentIds, v \in Offers }

\* the row INSERT makes of the values given: current_offer has DEFAULT 0.0
RowOf(params) ==
    [agent_id |-> params["agent_id"],
     current_offer |-> IF "current_offer" \in DOMAIN params
                       THEN params["current_offer"] ELSE 0]

\* insert_or_ignore gone wrong: INSERT OR REPLACE
insert_or_replace(tab, params) ==
    Append(SelectSeq(tab, LAMBDA r : r.agent_id # params["agent_id"]), RowOf(params))

\* Model.insert_or_ignore: INSERT OR IGNORE skips the row when its
\* primary key is in the table
insert_or_ignore(tab, params) ==
    IF \E i \in 1..Len(tab) : tab[i].agent_id = params["agent_id"]
    THEN tab
    ELSE Append(tab, RowOf(params))

\* Model.find(where): the rows that have the values given, in rowid order
find(tab, where) ==
    SelectSeq(tab, LAMBDA r : \A c \in DOMAIN where : r[c] = where[c])

\* {**kwargs, **(defaults or {})}: on a column both give, defaults wins
Params(kwargs, defaults) ==
    [c \in DOMAIN kwargs \cup DOMAIN defaults |->
        IF c \in DOMAIN defaults THEN defaults[c] ELSE kwargs[c]]

\* what get_or_create returns, or that it raised (fallback[0] of no rows)
NoState == [agent_id |-> "", current_offer |-> 0]
Got(row, created) == [row |-> row, created |-> created, raised |-> FALSE]
IndexError == [row |-> NoState, created |-> FALSE, raised |-> TRUE]
NoGot == Got(NoState, FALSE)

\* the coroutine in get_or_create: where it is, its arguments, its result
InGoc(pc, kwargs, defaults, ret) ==
    [pc |-> pc, kwargs |-> kwargs, defaults |-> defaults, ret |-> ret]
NoGoc == InGoc("idle", NoArgs, NoArgs, NoGot)

Init ==
    /\ INVENTORY = [p \in Actors |-> [k \in Items |-> 0]]
    /\ RESERVED = [t \in {} |-> 0]
    /\ PENDING = [t \in {} |-> 0]
    /\ TX = 1
    /\ clock = 0
    /\ pos = [p \in Actors |-> NoPos]
    /\ job = [p \in Actors |-> Idle]
    /\ OUTBOX = <<>>
    /\ matched = {}
    /\ DEFENSE = [p \in Actors |-> NoWindow]
    /\ released = {}
    /\ unanswered = {}
    /\ blows = {}
    /\ armed = [p \in Actors |-> NeverArmed]
    /\ DB = [p \in Actors |-> [k \in Items |-> 0]]
    /\ enqueued = <<>>
    /\ drained = <<>>
    /\ SEQ = NewRegistry
    /\ caller = [t \in Threads |-> NoCall]
    /\ applied = [x \in Consumers \X Actors \X Seqs |-> 0]
    /\ db = NewStore
    /\ co = NoCraft
    /\ commits = 0
    /\ table = <<>>
    /\ goc = NoGoc
    /\ walker = NoWalker
    /\ walked = 0
    /\ given = {}
    /\ lapsed = {}
    /\ snapshot = NoSnapshot
    /\ EDGE = [_now |-> {}, _last |-> {}]
    /\ _KEY_LATCH = [k \in KeyNames |-> FALSE]
    /\ ui = [pc |-> "frame", pressed |-> {}, frames |-> 0, run |-> [k \in KeyNames |-> 0]]
    /\ ran = [latches |-> 0, polls |-> 0, bodies |-> 0, out |-> "None"]
    /\ inventories = NoRow
    /\ adds = [c \in Coroutines |-> NoAdd]
    /\ seeded = Unseeded

\* on_tick / on_overlay for an unknown pid: the Player object is made and
\* the ledger primed from the store
Join(p) ==
    /\ p \in Proposers
    /\ OUTBOX = <<>>
    /\ pos[p] = NoPos
    /\ pos' = [pos EXCEPT ![p] = SpawnAt(p)]
    /\ DB' = [DB EXCEPT ![p] = StartInv[p]]
    /\ INVENTORY' = [INVENTORY EXCEPT ![p] = DB'[p]]
    /\ UNCHANGED <<RESERVED, PENDING, TX, clock, job, OUTBOX, matched, DEFENSE, released, unanswered, blows, armed, enqueued, drained, playerVars, storeVars, sdkVars, simVars, ovVars, keyVars, addVars>>

\* the world clock advances
Tick ==
    /\ OUTBOX = <<>>
    /\ \E t \in Times : t > clock /\ clock' = t
    /\ UNCHANGED <<INVENTORY, RESERVED, PENDING, TX, pos, job, OUTBOX, matched, DEFENSE, released, unanswered, blows, armed, DB, enqueued, drained, playerVars, storeVars, sdkVars, simVars, ovVars, keyVars, addVars>>

\* sim_loop / apply_inputs: the actor has moved
Move(p) ==
    /\ OUTBOX = <<>>
    /\ p \in Movers
    /\ pos[p] # NoPos
    /\ \E at \in Positions \ {pos[p]} : pos' = [pos EXCEPT ![p] = at]
    /\ UNCHANGED <<INVENTORY, RESERVED, PENDING, TX, clock, job, OUTBOX, matched, DEFENSE, released, unanswered, blows, armed, DB, enqueued, drained, playerVars, storeVars, sdkVars, simVars, ovVars, keyVars, addVars>>

\* on_overlay with a command: process_structured_cmd; without effects the
\* reply is enqueued at once, with effects the handler suspends on the store
\* (ApplyEffect, PersistFails) and enqueues the reply after them
\* T: the values now_ms() returns
OnOverlayAt(p, cmd, T) ==
    /\ OUTBOX = <<>>
    /\ pos[p] # NoPos
    /\ job[p] = Idle
    /\ \E t2 \in T \cap {clock, clock + 1} :
      \E r \in {process_structured_cmd(World, TX, p, cmd, clock, t2)} :
        /\ INVENTORY' = r.inv
        /\ RESERVED' = r.res
        /\ PENDING' = r.pend
        /\ TX' = r.tx
        /\ IF r.st = Raised(p)
           THEN /\ OUTBOX' = OUTBOX
                /\ job' = job
                /\ unanswered' = unanswered \cup {p}
           ELSE IF r.fx = <<>>
           THEN /\ OUTBOX' = Append(OUTBOX, Sent(r.st, cmd))
                /\ job' = job
                /\ unanswered' = unanswered
           ELSE /\ OUTBOX' = OUTBOX
                /\ job' = [job EXCEPT ![p] = [st |-> r.st, fx |-> r.fx, cmd |-> cmd]]
                /\ unanswered' = unanswered
        /\ matched' = IF cmd.kind = "accept" /\ r.st.status = "matched"
                      THEN matched \cup {cmd.txid} ELSE matched
        /\ DEFENSE' = IF cmd.kind = "counter" THEN Armed(DEFENSE, p, cmd, t2)
                      ELSE IF cmd.kind = "attack" THEN Disarmed(DEFENSE, p, cmd, t2)
                      ELSE DEFENSE
        /\ blows' = IF cmd.kind = "attack" /\ r.st.status = "matched"
                    THEN blows \cup {[weapon |-> cmd.with,
                                       tag |-> EffectiveTag(DEFENSE, cmd.target, t2),
                                       delta |-> r.fx[1].d["health"]]}
                    ELSE blows
        /\ armed' = IF cmd.kind = "counter" /\ r.st.status = "accepted"
                    THEN [armed EXCEPT ![p] = [item |-> cmd.with, at |-> t2]]
                    ELSE armed
        /\ clock' = t2
    /\ UNCHANGED <<pos, released, DB, enqueued, drained, playerVars, storeVars, sdkVars, simVars, ovVars, keyVars, addVars>>

OnOverlay(p, cmd) == OnOverlayAt(p, cmd, Times)

Make(p) == p \in Proposers /\ \E cmd \in MakeCmds : OnOverlay(p, cmd)
Rep(p) == p \in Proposers /\ \E cmd \in RepCmds : OnOverlay(p, cmd)
Trade(p) == p \in Proposers /\ TX <= MaxTx /\ \E cmd \in TradeCmds : OnOverlay(p, cmd)
Accept(p) == \E cmd \in AcceptCmds : OnOverlay(p, cmd)
Cancel(p) == \E cmd \in CancelCmds : OnOverlay(p, cmd)
Learn(p) == p \in Proposers /\ TX <= MaxTx /\ \E cmd \in LearnCmds : OnOverlay(p, cmd)
Teach(p) == p \in Proposers /\ TX <= MaxTx /\ \E cmd \in TeachCmds : OnOverlay(p, cmd)
Unknown(p) == p \in Proposers /\ \E cmd \in OtherCmds : OnOverlay(p, cmd)
Counter(p) == p \in Proposers /\ \E cmd \in CounterCmds : OnOverlay(p, cmd)
BadKind(p) == p \in Proposers /\ \E cmd \in KindCmds : OnOverlay(p, cmd)
Attack(p) == \E cmd \in AttackCmds : OnOverlay(p, cmd)
\* the first offer of a run: A offers B its bread for wood
Propose(p) ==
    p = "A" /\ TX = 1 /\ OnOverlay(p, TradeCmd("B", One("bread", 1), One("wood", 1)))

\* what on_overlay does once the effects are through: enqueue_reply(status)
Finish(p, left) ==
    IF left = <<>>
    THEN /\ job' = [job EXCEPT ![p] = Idle]
         /\ OUTBOX' = Append(OUTBOX, Sent(job[p].st, job[p].cmd))
    ELSE /\ job' = [job EXCEPT ![p].fx = left]
         /\ OUTBOX' = OUTBOX

\* _apply_effects_to_db resumes: the store took the head entry, and an
\* inventory entry is persisted and mirrored into GM_INV
ApplyEffect(p) ==
    /\ OUTBOX = <<>>
    /\ job[p].fx # <<>>
    /\ LET e == Head(job[p].fx)
       IN IF e.fx = "inventory"
          THEN /\ DB' = inv_bulk_add(DB, e.pid, e.d)
               /\ INVENTORY' = mirror(INVENTORY, e.pid, e.d)
          ELSE UNCHANGED <<DB, INVENTORY>>
    /\ Finish(p, Tail(job[p].fx))
    /\ UNCHANGED <<RESERVED, PENDING, TX, clock, pos, matched, DEFENSE, released, unanswered, blows, armed, enqueued, drained, playerVars, storeVars, sdkVars, simVars, ovVars, keyVars, addVars>>

\* PersistFails gone wrong: on_overlay does not catch what the store
\* raises, and the handler ends without a reply
PersistFails_uncaught(p) ==
    /\ OUTBOX = <<>>
    /\ job[p].fx # <<>>
    /\ job' = [job EXCEPT ![p] = Idle]
    /\ UNCHANGED <<INVENTORY, RESERVED, PENDING, TX, clock, pos, OUTBOX, matched, DEFENSE, released, unanswered, blows, armed, DB, enqueued, drained, playerVars, storeVars, sdkVars, simVars, ovVars, keyVars, addVars>>

\* the store raises on the head entry: on_overlay logs it and drops the rest
PersistFails(p) ==
    /\ OUTBOX = <<>>
    /\ job[p].fx # <<>>
    /\ Finish(p, <<>>)
    /\ UNCHANGED <<INVENTORY, RESERVED, PENDING, TX, clock, pos, matched, DEFENSE, released, unanswered, blows, armed, DB, enqueued, drained, playerVars, storeVars, sdkVars, simVars, ovVars, keyVars, addVars>>

\* Batch gone wrong: range(8) after the first get_nowait
Batch_nine(q) == SubSeq(q, 1, Min(9, Len(q)))

\* drain_replies: the batch it returns, one get_nowait and up to 7 more
\* until QueueEmpty, and what it leaves in the queue
Batch(q) == SubSeq(q, 1, Min(8, Len(q)))

Rest(q) == SubSeq(q, 9, Len(q))

\* drain_replies: up to 8 replies leave the outbox
drain_replies ==
    /\ OUTBOX # <<>>
    /\ OUTBOX' = Rest(OUTBOX)
    /\ UNCHANGED <<INVENTORY, RESERVED, PENDING, TX, clock, pos, job, matched, DEFENSE, released, unanswered, blows, armed, DB, enqueued, drained, playerVars, storeVars, sdkVars, simVars, ovVars, keyVars, addVars>>

Next ==
    \/ Tick
    \/ drain_replies
    \/ \E p \in Actors :
        \/ Join(p)
        \/ Move(p)
        \/ Make(p)
        \/ Rep(p)
        \/ Trade(p)
        \/ Accept(p)
        \/ Cancel(p)
        \/ Learn(p)
        \/ Teach(p)
        \/ Unknown(p)
        \/ ApplyEffect(p)
        \/ PersistFails(p)

Spec == Init /\ [][Next]_vars

\* offers, accepts and counters only
NextDefense ==
    \/ Tick
    \/ drain_replies
    \/ \E p \in Actors :
        \/ Join(p)
        \/ Trade(p)
        \/ Accept(p)
        \/ Counter(p)
        \/ ApplyEffect(p)
        \/ PersistFails(p)

SpecDefense == Init /\ [][NextDefense]_vars

\* commands of every shape of kind, next to offers and their accepts
NextDispatch ==
    \/ Tick
    \/ drain_replies
    \/ \E p \in Actors :
        \/ Join(p)
        \/ Trade(p)
        \/ Accept(p)
        \/ Unknown(p)
        \/ BadKind(p)
        \/ ApplyEffect(p)
        \/ PersistFails(p)

SpecDispatch == Init /\ [][NextDispatch]_vars

\* the same with the scheduling of the game master: time advances, the
\* send loop drains the outbox, a handler suspended on the store resumes.
\* Whether a player sends a command is up to the player.
SpecLive ==
    /\ SpecDispatch
    /\ SF_vars(Tick)
    /\ WF_vars(drain_replies)
    /\ \A p \in Actors : WF_vars(ApplyEffect(p) \/ PersistFails(p))

\* attacks and counters next to moves and offers
NextCombat ==
    \/ Tick
    \/ drain_replies
    \/ \E p \in Actors :
        \/ Join(p)
        \/ Propose(p)
        \/ Counter(p)
        \/ Attack(p)
        \/ Move(p)
        \/ ApplyEffect(p)

SpecCombat == Init /\ [][NextCombat]_vars

\* a duel around the end of a defense window: the values now_ms() returns,
\* the commands (a weapon of the table, an item of the table that does no
\* damage, an item the table does not know) and the clock
FightTimes == {0, DEFENSE_MS, DEFENSE_MS + 1}
FightCmds ==
    {[kind |-> "attack", target |-> "B", with |-> i] : i \in {"knife", "herb", "fist"}}
    \cup {[kind |-> "counter", target |-> "A", with |-> i] : i \in {"plate_iron", "knife"}}
Fight(p) == \E cmd \in FightCmds : OnOverlayAt(p, cmd, FightTimes)
Wait ==
    /\ OUTBOX = <<>>
    /\ \E t \in FightTimes : t > clock /\ clock' = t
    /\ UNCHANGED <<INVENTORY, RESERVED, PENDING, TX, pos, job, OUTBOX, matched, DEFENSE,
                   released, unanswered, blows, armed, DB, enqueued, drained, playerVars, storeVars, sdkVars, simVars, ovVars, keyVars, addVars>>

NextFight ==
    \/ Wait
    \/ drain_replies
    \/ \E p \in Actors :
        \/ Join(p)
        \/ Move(p)
        \/ Fight(p)
        \/ ApplyEffect(p)

SpecFight == Init /\ [][NextFight]_vars

\* offers, their accepts and the effects applier with a store that never
\* raises
NextPersist ==
    \/ Tick
    \/ drain_replies
    \/ \E p \in Actors :
        \/ Join(p)
        \/ Trade(p)
        \/ Learn(p)
        \/ Accept(p)
        \/ ApplyEffect(p)

SpecPersist == Init /\ [][NextPersist]_vars

(* ------------------------------------------------------------------ *)
(* The outbox alone: enqueue_reply and drain_replies in any order      *)
(* ------------------------------------------------------------------ *)

\* the replies put into the outbox in these runs
BoxReplies ==
    { Sent(Status(s, "", "trade", 1, p), NoCmd) : s \in {"accepted", "matched"}, p \in {"A"} }

\* enqueue_reply(msg): put_nowait on a Queue() made without maxsize, which
\* never is full
enqueue_reply(msg) ==
    /\ OUTBOX' = Append(OUTBOX, msg)
    /\ enqueued' = Append(enqueued, msg)

Enqueue ==
    /\ Len(enqueued) < MaxBox
    /\ \E msg \in BoxReplies : enqueue_reply(msg)
    /\ UNCHANGED <<INVENTORY, RESERVED, PENDING, TX, clock, pos, job, matched, DEFENSE,
                   released, unanswered, blows, armed, DB, drained, playerVars, storeVars, sdkVars, simVars, ovVars, keyVars, addVars>>

\* drain_replies, with the batch it returns kept in the history
Drain ==
    /\ OUTBOX # <<>>
    /\ OUTBOX' = Rest(OUTBOX)
    /\ drained' = drained \o Batch(OUTBOX)
    /\ UNCHANGED <<INVENTORY, RESERVED, PENDING, TX, clock, pos, job, matched, DEFENSE,
                   released, unanswered, blows, armed, DB, enqueued, playerVars, storeVars, sdkVars, simVars, ovVars, keyVars, addVars>>

NextOutbox ==
    \/ Enqueue
    \/ Drain

SpecOutbox == Init /\ [][NextOutbox]_vars

(* ------------------------------------------------------------------ *)
(* db_sdk alone: insert_or_ignore, delete and get_or_create, one call  *)
(* after the other, on one table                                       *)
(* ------------------------------------------------------------------ *)

\* a call of Model.insert_or_ignore(**params)
InsertOrIgnore(params) ==
    /\ goc.pc = "idle"
    /\ table' = insert_or_ignore(table, params)
    /\ UNCHANGED <<gmVars, playerVars, storeVars, goc, simVars, ovVars, keyVars, addVars>>

\* a call of Model.delete(where)
Delete(where) ==
    /\ goc.pc = "idle"
    /\ find(table, where) # <<>>
    /\ table' = SelectSeq(table, LAMBDA r : \E c \in DOMAIN where : r[c] # where[c])
    /\ UNCHANGED <<gmVars, playerVars, storeVars, goc, simVars, ovVars, keyVars, addVars>>

\* get_or_create(defaults, **kwargs) is called; the primary key is among
\* the values given
GocCall(kwargs, defaults) ==
    /\ goc.pc = "idle"
    /\ "agent_id" \in DOMAIN kwargs \cup DOMAIN defaults
    /\ goc' = InGoc("find", kwargs, defaults, NoGot)
    /\ UNCHANGED <<gmVars, playerVars, storeVars, table, simVars, ovVars, keyVars, addVars>>

\* existing = await cls.find(where=kwargs); if existing: return it, False
GocFind ==
    /\ goc.pc = "find"
    /\ LET existing == find(table, goc.kwargs)
       IN  goc' = IF existing # <<>>
                  THEN [goc EXCEPT !.pc = "done", !.ret = Got(Head(existing), FALSE)]
                  ELSE [goc EXCEPT !.pc = "insert"]
    /\ UNCHANGED <<gmVars, playerVars, storeVars, table, simVars, ovVars, keyVars, addVars>>

\* await cls.insert_or_ignore(**params)
GocInsert ==
    /\ goc.pc = "insert"
    /\ table' = insert_or_ignore(table, Params(goc.kwargs, goc.defaults))
    /\ goc' = [goc EXCEPT !.pc = "created"]
    /\ UNCHANGED <<gmVars, playerVars, storeVars, simVars, ovVars, keyVars, addVars>>

\* created = await cls.find(where=kwargs); if created: return it, True
GocCreated ==
    /\ goc.pc = "created"
    /\ LET created == find(table, goc.kwargs)
       IN  goc' = IF created # <<>>
                  THEN [goc EXCEPT !.pc = "done", !.ret = Got(Head(created), TRUE)]
                  ELSE [goc EXCEPT !.pc = "fallback"]
    /\ UNCHANGED <<gmVars, playerVars, storeVars, table, simVars, ovVars, keyVars, addVars>>

\* fallback = await cls.find(where=kwargs); return fallback[0], False
GocFallback ==
    /\ goc.pc = "fallback"
    /\ LET fallback == find(table, goc.kwargs)
       IN  goc' = IF fallback # <<>>
                  THEN [goc EXCEPT !.pc = "done", !.ret = Got(Head(fallback), FALSE)]
                  ELSE [goc EXCEPT !.pc = "done", !.ret = IndexError]
    /\ UNCHANGED <<gmVars, playerVars, storeVars, table, simVars, ovVars, keyVars, addVars>>

\* the caller has taken the result
GocForget ==
    /\ goc.pc = "done"
    /\ goc' = NoGoc
    /\ UNCHANGED <<gmVars, playerVars, storeVars, table, simVars, ovVars, keyVars, addVars>>

NextSdk ==
    \/ \E params \in KeyArgs \cup BothArgs : InsertOrIgnore(params)
    \/ \E where \in KeyArgs \cup OfferArgs : Delete(where)
    \/ \E kwargs \in KeyArgs \cup OfferArgs \cup BothArgs,
          defaults \in {NoArgs} \cup KeyArgs \cup OfferArgs : GocCall(kwargs, defaults)
    \/ GocFind
    \/ GocInsert
    \/ GocCreated
    \/ GocFallback
    \/ GocForget

SpecSdk == Init /\ [][NextSdk]_vars

(* ------------------------------------------------------------------ *)
(* The simulation alone: a player joins, holds keys and is moved       *)
(* ------------------------------------------------------------------ *)

\* the jitter of a spawn, and where a player is after simulation steps
\* that are not followed one by one: near the corners of the map
Jitters == {-18000, 0, 18000}
NearEdge(lo, hi) == {lo, lo + 1000, hi - 1000, hi}

\* on_tick of an unknown pid: the Player object is made
Spawn ==
    /\ walker = NoWalker
    /\ \E jx \in Jitters, jy \in Jitters : walker' = Player(jx, jy)
    /\ UNCHANGED <<gmVars, playerVars, storeVars, sdkVars, walked, ovVars, keyVars, addVars>>

\* the player has walked to a corner of the map
Walked ==
    /\ walker # NoWalker
    /\ walked = 0
    /\ \E x \in NearEdge(PLAYER_RADIUS * 1000, (MAP_W - PLAYER_RADIUS) * 1000),
          y \in NearEdge(PLAYER_RADIUS * 1000, (MAP_H - PLAYER_RADIUS) * 1000) :
          walker' = [walker EXCEPT !.x = x, !.y = y]
    /\ walked' = 1
    /\ UNCHANGED <<gmVars, playerVars, storeVars, sdkVars, ovVars, keyVars, addVars>>

\* on_tick: the keys the message says are held
on_tick(keys) ==
    /\ walker # NoWalker
    /\ walker' = [walker EXCEPT !.keys = keys]
    /\ UNCHANGED <<gmVars, playerVars, storeVars, sdkVars, walked, ovVars, keyVars, addVars>>

\* sim_loop: one physics step
SimStep ==
    /\ walker # NoWalker
    /\ walked <= MaxWalk
    /\ walker' = apply_inputs(walker)
    /\ walked' = walked + 1
    /\ UNCHANGED <<gmVars, playerVars, storeVars, sdkVars, ovVars, keyVars, addVars>>

NextSim ==
    \/ Spawn
    \/ Walked
    \/ \E keys \in SUBSET Keys : on_tick(keys)
    \/ SimStep

SpecSim == Init /\ [][NextSim]_vars

(* ------------------------------------------------------------------ *)
(* Overlays alone: chats of one player, snapshots, time                *)
(* ------------------------------------------------------------------ *)

\* ttl_ms of a chat, in the units of the clock of these runs
Ttls == {0, 1, 2}

\* on_overlay with a chat that sanitize_overlay keeps
Chat ==
    /\ walker # NoWalker
    /\ walker.ov_seq < MaxChat
    /\ \E ttl \in Ttls : walker' = chat(walker, ttl, clock)
    /\ given' = given \cup {walker'.ov_seq}
    /\ UNCHANGED <<gmVars, playerVars, storeVars, sdkVars, walked, lapsed, snapshot, keyVars, addVars>>

\* send_world: world_state() with collect_overlays()
send_world ==
    /\ walker # NoWalker
    /\ LET c == collect_overlays(walker, clock)
       IN /\ snapshot' = [at |-> clock, overlays |-> c.out]
          /\ walker' = c.pl
          /\ lapsed' = IF walker.overlay # NoOverlay /\ c.out = {}
                       THEN lapsed \cup {walker.overlay.seq} ELSE lapsed
    /\ UNCHANGED <<gmVars, playerVars, storeVars, sdkVars, walked, given, keyVars, addVars>>

\* time.time() moves on
Pass ==
    /\ clock < MaxTime
    /\ clock' = clock + 1
    /\ UNCHANGED <<INVENTORY, RESERVED, PENDING, TX, pos, job, OUTBOX, matched,
                   DEFENSE, released, unanswered, blows, armed, DB, enqueued, drained,
                   playerVars, storeVars, sdkVars, simVars, ovVars, keyVars, addVars>>

NextOverlay ==
    \/ Spawn
    \/ Chat
    \/ send_world
    \/ Pass

SpecOverlay == Init /\ [][NextOverlay]_vars

(* ------------------------------------------------------------------ *)
(* Keypress gate alone: the UI thread latching, the client thread      *)
(* polling a coroutine wrapped by send_on_keypress                     *)
(* ------------------------------------------------------------------ *)

Others == <<gmVars, playerVars, storeVars, sdkVars, simVars, ovVars>>

\* ui_loop: pygame.key.get_pressed() at the start of a frame
get_pressed ==
    /\ ui.pc = "frame"
    /\ ui.frames < MaxFrames
    /\ \E names \in SUBSET KeyNames :
           ui' = [pc |-> "update", pressed |-> names, frames |-> ui.frames + 1,
                  run |-> [k \in KeyNames |->
                              IF k \in names THEN ui.run[k] + 1 ELSE 0]]
    /\ UNCHANGED <<Others, EDGE, _KEY_LATCH, ran, addVars>>

\* ui_loop: EDGE.update_pressed(pressed_names)
UpdatePressed ==
    /\ ui.pc = "update"
    /\ EDGE' = update_pressed(EDGE, ui.pressed)
    /\ ui' = [ui EXCEPT !.pc = IF ui.pressed = {} THEN "frame" ELSE "edge"]
    /\ UNCHANGED <<Others, _KEY_LATCH, ran, addVars>>

\* ui_loop: for name in pressed_names: if EDGE.edge_down(name)
EdgeDown ==
    /\ ui.pc = "edge"
    /\ \E name \in ui.pressed :
           ui' = [ui EXCEPT !.pc = IF edge_down(EDGE, name) THEN "latch" ELSE "frame"]
    /\ UNCHANGED <<Others, EDGE, _KEY_LATCH, ran, addVars>>

\* ui_loop: latch_keypress(name)
LatchKeypress ==
    /\ ui.pc = "latch"
    /\ \E name \in ui.pressed :
           _KEY_LATCH' = latch_keypress(_KEY_LATCH, name)
    /\ ui' = [ui EXCEPT !.pc = "frame"]
    /\ ran' = [ran EXCEPT !.latches = ran.latches + 1]
    /\ UNCHANGED <<Others, EDGE, addVars>>

\* the client thread polls wrapped(): consume_latch, then the body or None
wrapped ==
    /\ ran.polls < MaxPolls
    /\ \E name \in KeyNames :
           LET c == consume_latch(_KEY_LATCH, name)
           IN /\ _KEY_LATCH' = c.latch
              /\ ran' = [ran EXCEPT !.polls = ran.polls + 1,
                                     !.bodies = IF c.v THEN ran.bodies + 1 ELSE ran.bodies,
                                     !.out = IF c.v THEN "output" ELSE "None"]
    /\ UNCHANGED <<Others, EDGE, ui, addVars>>

NextKeys ==
    \/ get_pressed
    \/ UpdatePressed
    \/ EdgeDown
    \/ LatchKeypress
    \/ wrapped

SpecKeys == Init /\ [][NextKeys]_vars

(* ------------------------------------------------------------------ *)
(* inv_add alone: two coroutines on the row of one (pid, item)         *)
(* ------------------------------------------------------------------ *)

Outside == <<gmVars, playerVars, storeVars, sdkVars, simVars, ovVars, keyVars>>

\* the row earlier commands have left in the store
Seed ==
    /\ seeded = Unseeded
    /\ \E r \in {NoRow, Row(1), Row(2)} :
           /\ inventories' = r
           /\ seeded' = r
    /\ UNCHANGED <<Outside, adds>>

\* _apply_effects_to_db -> inv_bulk_add -> inv_add(DB, pid, item, delta):
\* the coroutine awaits Inventory.find
InvAdd(c) ==
    /\ seeded # Unseeded
    /\ adds[c].pc = "idle"
    /\ \E d \in Deltas :
           adds' = [adds EXCEPT ![c] =
                       [pc |-> "find", delta |-> d, row |-> NoRow, met |-> FALSE]]
    /\ UNCHANGED <<Outside, inventories, seeded>>

\* the SELECT of Inventory.find runs: the coroutine goes on to await the
\* update, or the insert when there is no row
InvFind(c) ==
    /\ adds[c].pc = "find"
    /\ adds' = [adds EXCEPT ![c].row = inventories,
                            ![c].pc = IF inventories.row THEN "update" ELSE "insert",
                            ![c].met = \E o \in Coroutines \ {c} :
                                           adds[o].pc \in {"update", "insert"}]
    /\ UNCHANGED <<Outside, inventories, seeded>>

\* the UPDATE of Inventory.update runs, with the quantity computed from
\* the row the find gave
InvUpdate(c) ==
    /\ adds[c].pc = "update"
    /\ inventories' = Row(new_q(adds[c].row, adds[c].delta))
    /\ adds' = [adds EXCEPT ![c].pc = "done"]
    /\ UNCHANGED <<Outside, seeded>>

\* the INSERT of Inventory.insert runs: the unique index on (pid, item)
\* makes it raise when the row is there by now
InvInsert(c) ==
    /\ adds[c].pc = "insert"
    /\ IF inventories.row
       THEN /\ adds' = [adds EXCEPT ![c].pc = "raised"]
            /\ UNCHANGED inventories
       ELSE /\ inventories' = Row(new_q(NoRow, adds[c].delta))
            /\ adds' = [adds EXCEPT ![c].pc = "done"]
    /\ UNCHANGED <<Outside, seeded>>

NextAdd ==
    \/ Seed
    \/ \E c \in Coroutines :
        \/ InvAdd(c)
        \/ InvFind(c)
        \/ InvUpdate(c)
        \/ InvInsert(c)

SpecAdd == Init /\ [][NextAdd]_vars

(* ------------------------------------------------------------------ *)
(* The ledger alone: reserve and release called on any inventories     *)
(* ------------------------------------------------------------------ *)
Bundles ==
    {One(k, n) : k \in {"bread", "wood"}, n \in -1 .. (MaxQty + 1)}
    \cup {Dict([k \in {"bread", "wood"} |-> Q(1)]), Dict("wood" :> BadQ), EmptyDict, NonDict}

InitLedger ==
    /\ INVENTORY \in {[p \in Actors |-> [k \in Items |->
                            IF p \in Proposers /\ k \in {"bread", "wood"} THEN f[p][k] ELSE 0]] :
                        f \in [Proposers -> [{"bread", "wood"} -> 0 .. MaxQty]]}
    /\ RESERVED = [t \in {} |-> 0]
    /\ PENDING = [t \in {} |-> 0]
    /\ TX = 1
    /\ clock = 0
    /\ pos = [p \in Actors |-> NoPos]
    /\ job = [p \in Actors |-> Idle]
    /\ OUTBOX = <<>>
    /\ matched = {}
    /\ DEFENSE = [p \in Actors |-> NoWindow]
    /\ released = {}
    /\ unanswered = {}
    /\ blows = {}
    /\ armed = [p \in Actors |-> NeverArmed]
    /\ DB = [p \in Actors |-> [k \in Items |-> 0]]
    /\ enqueued = <<>>
    /\ drained = <<>>
    /\ SEQ = NewRegistry
    /\ caller = [t \in Threads |-> NoCall]
    /\ applied = [x \in Consumers \X Actors \X Seqs |-> 0]
    /\ db = NewStore
    /\ co = NoCraft
    /\ commits = 0
    /\ table = <<>>
    /\ goc = NoGoc
    /\ walker = NoWalker
    /\ walked = 0
    /\ given = {}
    /\ lapsed = {}
    /\ snapshot = NoSnapshot
    /\ EDGE = [_now |-> {}, _last |-> {}]
    /\ _KEY_LATCH = [k \in KeyNames |-> FALSE]
    /\ ui = [pc |-> "frame", pressed |-> {}, frames |-> 0, run |-> [k \in KeyNames |-> 0]]
    /\ ran = [latches |-> 0, polls |-> 0, bodies |-> 0, out |-> "None"]
    /\ inventories = NoRow
    /\ adds = [c \in Coroutines |-> NoAdd]
    /\ seeded = Unseeded

\* reserve(pid, new_txid(), items), as _do_trade and _do_learn_teach call it
ReserveOp(p, items) ==
    /\ TX <= MaxTx
    /\ LET n == new_txid(TX)
           r == reserve(INVENTORY, RESERVED, p, n.txid, items)
       IN /\ INVENTORY' = r.inv
          /\ RESERVED' = r.res
          /\ TX' = n.next
    /\ UNCHANGED <<PENDING, clock, pos, job, OUTBOX, matched, DEFENSE, released, unanswered, blows, armed, DB, enqueued, drained, playerVars, storeVars, sdkVars, simVars, ovVars, keyVars, addVars>>

\* release(txid)
ReleaseOp(t) ==
    /\ INVENTORY' = release(INVENTORY, RESERVED, t)
    /\ RESERVED' = Pop(RESERVED, t)
    /\ released' = IF t \in DOMAIN RESERVED THEN released \cup {t} ELSE released
    /\ UNCHANGED <<PENDING, TX, clock, pos, job, OUTBOX, matched, DEFENSE, unanswered,
                   blows, armed, DB, enqueued, drained, playerVars, storeVars, sdkVars, simVars, ovVars, keyVars, addVars>>

NextLedger ==
    \/ \E p \in Proposers, items \in Bundles : ReserveOp(p, items)
    \/ \E t \in TxInputs : ReleaseOp(t)

SpecLedger == InitLedger /\ [][NextLedger]_vars

(* ------------------------------------------------------------------ *)
(* A player process: threads calling SEQ.seen(consumer, pid, seq)      *)
(* ------------------------------------------------------------------ *)
\* seen() is called and the lock taken
Enter(t, c, pid, seq) ==
    /\ caller[t] = NoCall
    /\ LockFree(SEQ)
    /\ SEQ' = [SEQ EXCEPT !.lock = t]
    /\ caller' = [caller EXCEPT ![t] = InCall("get", c, pid, seq, -1, FALSE)]
    /\ UNCHANGED <<gmVars, applied, storeVars, sdkVars, simVars, ovVars, keyVars, addVars>>

\* last = self._by_consumer[consumer].get(pid, -1)
Get(t) ==
    /\ caller[t].pc = "get"
    /\ caller' = [caller EXCEPT ![t].pc = "test",
                                ![t].last = LastSeen(SEQ, caller[t].consumer, caller[t].pid)]
    /\ UNCHANGED <<gmVars, SEQ, applied, storeVars, sdkVars, simVars, ovVars, keyVars, addVars>>

\* if seq <= last: return True
Test(t) ==
    /\ caller[t].pc = "test"
    /\ caller' = [caller EXCEPT ![t].pc = IF IsSeen(caller[t].seq, caller[t].last)
                                          THEN "exit" ELSE "set",
                                ![t].ret = IsSeen(caller[t].seq, caller[t].last)]
    /\ UNCHANGED <<gmVars, SEQ, applied, storeVars, sdkVars, simVars, ovVars, keyVars, addVars>>

\* self._by_consumer[consumer][pid] = seq; return False
Set(t) ==
    /\ caller[t].pc = "set"
    /\ SEQ' = Record(SEQ, caller[t].consumer, caller[t].pid, caller[t].seq)
    /\ caller' = [caller EXCEPT ![t].pc = "exit"]
    /\ applied' = [applied EXCEPT ![<<caller[t].consumer, caller[t].pid, caller[t].seq>>] =
                                       IF @ < 2 THEN @ + 1 ELSE @]
    /\ UNCHANGED <<gmVars, storeVars, sdkVars, simVars, ovVars, keyVars, addVars>>

\* the with block is left and seen() returns
Exit(t) ==
    /\ caller[t].pc = "exit"
    /\ SEQ' = [SEQ EXCEPT !.lock = IF @ = t THEN NoThread ELSE @]
    /\ caller' = [caller EXCEPT ![t] = NoCall]
    /\ UNCHANGED <<gmVars, applied, storeVars, sdkVars, simVars, ovVars, keyVars, addVars>>

NextSeq ==
    \E t \in Threads :
        \/ \E c \in Consumers, pid \in Proposers, seq \in Seqs : Enter(t, c, pid, seq)
        \/ Get(t)
        \/ Test(t)
        \/ Set(t)
        \/ Exit(t)

SpecSeq == Init /\ [][NextSeq]_vars

(* ------------------------------------------------------------------ *)
(* Crafting: one coroutine in apply_recipe, called directly or from    *)
(* the loops of handle_craft, and writers on other connections         *)
(* ------------------------------------------------------------------ *)
\* resources["recipes"]: id -> inputs and outputs
RecipeIds == {"plank", "free", "same"}
resources(rid) ==
    IF rid = "plank"
    THEN [inputs |-> <<<<"wood", Q(2)>>>>, outputs |-> <<<<"plank", Q(1)>>>>]
    ELSE IF rid = "free"
    THEN [inputs |-> <<>>, outputs |-> <<<<"plank", Q(1)>>>>]
    ELSE [inputs |-> <<<<"wood", Q(1)>>>>, outputs |-> <<<<"wood", Q(1)>>>>]

\* msg["recipe"] of a craft message: no id, an id of no recipe, the ids
CraftIds == {"", "nails"} \cup RecipeIds
\* msg["times"]: "max" or a number
TimesMax == [max |-> TRUE, t |-> 0]
TimesOf(t) == [max |-> FALSE, t |-> t]
CraftTimes == {TimesMax} \cup {TimesOf(t) : t \in 0 .. 2}

\* the recipes apply_recipe is called with directly
ApplyRecipes ==
    { Recipe(<<<<"wood", Q(2)>>>>, <<<<"wood", Q(2)>>>>, <<<<"plank", Q(1)>>>>),
      Recipe(<<<<"wood", Q(1)>>>>, <<<<"wood", Q(1)>>, <<"plank", Q(1)>>>>, <<>>),
      Recipe(<<<<"plank", Q(-1)>>, <<"wood", Q(1)>>>>, <<<<"plank", Q(0)>>>>,
             <<<<"wood", Q(1)>>, <<"plank", Q(1)>>>>),
      Recipe(<<>>, <<<<"wood", Q(-1)>>>>, <<>>),
      Recipe(<<<<"wood", BadQ>>>>, <<>>, <<>>) }

\* the coroutine moves to the place loc and leaves the store as d
Goto(loc, d) ==
    /\ co' = [co EXCEPT !.pc = loc.pc, !.i = loc.i]
    /\ db' = d
    /\ UNCHANGED commits

\* apply_recipe returns r and leaves the store as d
Returns(r, d) ==
    /\ co' = [co EXCEPT !.pc = "ret", !.i = 0, !.ret = r]
    /\ db' = d

\* a direct call apply_recipe(db, pid, rec)
CallApply(rec) ==
    /\ co.pc = "idle"
    /\ co' = [NoCraft EXCEPT !.pc = "start", !.rec = rec, !.mode = "apply"]
    /\ commits' = 0
    /\ UNCHANGED <<gmVars, playerVars, sdkVars, db, simVars, ovVars, keyVars, addVars>>

\* handle_craft up to its first call of apply_recipe
CallCraft(rid, times) ==
    /\ co.pc = "idle"
    /\ co' = IF rid = ""
             THEN [NoCraft EXCEPT !.pc = "done",
                       !.reply = CraftReply("rejected", "missing_recipe", 0)]
             ELSE IF rid \notin RecipeIds
             THEN [NoCraft EXCEPT !.pc = "done",
                       !.reply = CraftReply("rejected", "unknown_recipe", 0)]
             ELSE LET rec == resources(rid)
                  IN [NoCraft EXCEPT
                         !.pc = "start",
                         !.rec = Recipe(rec.inputs, rec.inputs, rec.outputs),
                         !.mode = IF times.max THEN "max" ELSE "times",
                         !.left = IF times.max THEN 0 ELSE Max(1, times.t)]
    /\ commits' = 0
    /\ UNCHANGED <<gmVars, playerVars, sdkVars, db, simVars, ovVars, keyVars, addVars>>

\* apply_recipe up to its first await
Validate ==
    /\ co.pc = "start"
    /\ IF invalid_recipe(co.rec)
       THEN Returns(Ret(FALSE, "invalid_recipe"), db) /\ UNCHANGED commits
       ELSE Goto(First(co.rec, 1), db)
    /\ UNCHANGED <<gmVars, playerVars, sdkVars, simVars, ovVars, keyVars, addVars>>

\* inv_has: one inv_get_qty of the quick pre-check
PreCheck ==
    /\ co.pc = "pre"
    /\ LET need == MapOf(co.rec, "pre")[co.i]
       IN IF inv_get_qty(db, need[1]) < need[2]
          THEN Returns(Ret(FALSE, "missing_requirements"), db) /\ UNCHANGED commits
          ELSE Goto(After(co.rec, "pre", co.i), db)
    /\ UNCHANGED <<gmVars, playerVars, sdkVars, simVars, ovVars, keyVars, addVars>>

\* BEGIN IMMEDIATE
BeginTx ==
    /\ co.pc = "begin"
    /\ Goto(After(co.rec, "begin", 0), Begin(db))
    /\ UNCHANGED <<gmVars, playerVars, sdkVars, simVars, ovVars, keyVars, addVars>>

\* one SELECT of the re-check under lock
ReCheck ==
    /\ co.pc = "recheck"
    /\ LET need == MapOf(co.rec, "recheck")[co.i]
       IN IF inv_get_qty(db, need[1]) < need[2]
          THEN Returns(Ret(FALSE, "missing_requirements"), Rollback(db))
               /\ UNCHANGED commits
          ELSE Goto(After(co.rec, "recheck", co.i), db)
    /\ UNCHANGED <<gmVars, playerVars, sdkVars, simVars, ovVars, keyVars, addVars>>

\* one SELECT and UPDATE of the consumes loop
Consume ==
    /\ co.pc = "consume"
    /\ LET c == MapOf(co.rec, "consume")[co.i]
           have == inv_get_qty(db, c[1])
       IN IF have < c[2]
          THEN Returns(Ret(FALSE, "missing_requirements"), Rollback(db))
               /\ UNCHANGED commits
          ELSE Goto(After(co.rec, "consume", co.i), SetQty(db, c[1], have - c[2]))
    /\ UNCHANGED <<gmVars, playerVars, sdkVars, simVars, ovVars, keyVars, addVars>>

\* one SELECT and UPDATE or INSERT of the produces loop
Produce ==
    /\ co.pc = "produce"
    /\ LET p == MapOf(co.rec, "produce")[co.i]
           have == inv_get_qty(db, p[1])
       IN /\ have + p[2] <= MaxStock
          /\ Goto(After(co.rec, "produce", co.i), SetQty(db, p[1], have + p[2]))
    /\ UNCHANGED <<gmVars, playerVars, sdkVars, simVars, ovVars, keyVars, addVars>>

\* db.commit() and return True, "ok"
CommitTx ==
    /\ co.pc = "commit"
    /\ Returns(Ret(TRUE, "ok"), Commit(db))
    /\ commits' = commits + 1
    /\ UNCHANGED <<gmVars, playerVars, sdkVars, simVars, ovVars, keyVars, addVars>>

\* the caller gets the result: a direct caller keeps it, the loops of
\* handle_craft count it and go on or reply
Return ==
    /\ co.pc = "ret"
    /\ IF co.mode = "apply"
       THEN co' = [co EXCEPT !.pc = "done"]
       ELSE IF co.mode = "max"
       THEN IF ~co.ret.ok
            THEN co' = [co EXCEPT !.pc = "done",
                            !.reply = CraftReply("matched", "", co.n)]
            ELSE /\ co.n < MaxCraft
                 /\ co' = [co EXCEPT !.pc = "start", !.ret = NoRet, !.n = co.n + 1]
       ELSE IF ~co.ret.ok
            THEN co' = [co EXCEPT !.pc = "done",
                            !.reply = CraftReply("rejected", co.ret.why, co.n)]
            ELSE IF co.left = 1
            THEN co' = [co EXCEPT !.pc = "done", !.n = co.n + 1, !.left = 0,
                            !.reply = CraftReply("matched", "", co.n + 1)]
            ELSE co' = [co EXCEPT !.pc = "start", !.ret = NoRet,
                            !.n = co.n + 1, !.left = co.left - 1]
    /\ UNCHANGED <<gmVars, playerVars, sdkVars, db, commits, simVars, ovVars, keyVars, addVars>>

\* the result was read; the next call may come
Forget ==
    /\ co.pc = "done"
    /\ co' = NoCraft
    /\ UNCHANGED <<gmVars, playerVars, sdkVars, db, commits, simVars, ovVars, keyVars, addVars>>

\* inv_add on another connection: it writes only while no transaction of
\* this connection holds the lock
OtherWrite(it, delta) ==
    /\ ~db.open
    /\ Max(0, inv_get_qty(db, it) + delta) <= MaxStock
    /\ db' = Commit(SetQty(db, it, Max(0, inv_get_qty(db, it) + delta)))
    /\ UNCHANGED <<gmVars, playerVars, sdkVars, co, commits, simVars, ovVars, keyVars, addVars>>

NextCraft ==
    \/ \E rec \in ApplyRecipes : CallApply(rec)
    \/ \E rid \in CraftIds, times \in CraftTimes : CallCraft(rid, times)
    \/ Validate
    \/ PreCheck
    \/ BeginTx
    \/ ReCheck
    \/ Consume
    \/ Produce
    \/ CommitTx
    \/ Return
    \/ Forget
    \/ \E it \in StoreItems, delta \in {-1, 1} : OtherWrite(it, delta)

SpecCraft == Init /\ [][NextCraft]_vars

(* ------------------------------------------------------------------ *)
(* Vocabulary of the claims                                            *)
(* ------------------------------------------------------------------ *)
RECURSIVE SumOver(_, _)
SumOver(f, S) ==
    IF S = {} THEN 0
    ELSE LET x == CHOOSE y \in S : TRUE IN f[x] + SumOver(f, S \ {x})

\* the quantity of item k a bundle holds
QtyIn(m, k) == IF k \in DOMAIN m /\ m[k].int THEN m[k].n ELSE 0

\* the quantity of item k in all inventories and in all reservations
Total(k) ==
    SumOver([p \in Actors |-> INVENTORY[p][k]], Actors)
    + SumOver([t \in DOMAIN RESERVED |-> QtyIn(RESERVED[t].items, k)], DOMAIN RESERVED)

\* the reply enqueued by the step just taken, and the command it answers
Replied == OUTBOX # <<>>
LastReply == Head(OUTBOX).st
LastCmd == Head(OUTBOX).cmd

\* the step just taken is on_overlay taking command cmd of actor p through
\* process_structured_cmd: the reply is enqueued, or the handler suspends
Handles(p, cmd) ==
    /\ OUTBOX = <<>>
    /\ job[p] = Idle
    /\ \/ /\ OUTBOX' # <<>>
          /\ job' = job
          /\ Head(OUTBOX').st.from = p
          /\ Head(OUTBOX').cmd = cmd
       \/ /\ job'[p] # Idle
          /\ job'[p].cmd = cmd

\* the status the step just taken returns to actor p
Answer(p) == IF OUTBOX' # <<>> THEN Head(OUTBOX').st ELSE job'[p].st

\* the offers whose TTL has elapsed when the sweep of a command reads the
\* clock, and when its handler does
Elapsed == {t \in DOMAIN PENDING : clock > PENDING[t].ts + PENDING[t].ttl}
ElapsedAtHandler == {t \in DOMAIN PENDING : clock' > PENDING[t].ts + PENDING[t].ttl}

\* the inventories once the reservations S are back with their owners
Restored(S) ==
    [p \in Actors |-> [k \in Items |->
        LET own == {t \in S \cap DOMAIN RESERVED : RESERVED[t].pid = p}
        IN INVENTORY[p][k] + SumOver([t \in own |-> QtyIn(RESERVED[t].items, k)], own)]]

\* the ledger and the offers with the elapsed offers gone
SweptInv == Restored(Elapsed)
SweptRes == [t \in (DOMAIN RESERVED) \ Elapsed |-> RESERVED[t]]
SweptPend == [t \in (DOMAIN PENDING) \ Elapsed |-> PENDING[t]]

\* C1: after every call of process_structured_cmd the transaction ids of
\* RESERVED are those of PENDING
C1_ReservedIffPending == DOMAIN RESERVED = DOMAIN PENDING

\* C2: no step that handles a trade, learn, teach, accept or cancel command,
\* sweeps expired offers or applies the effects of such a command changes the
\* total of any item over all inventories and reservations
C2_Conservation ==
    [][(\A p \in Actors :
            /\ ~Join(p)
            /\ ~Make(p)
            /\ ~(ApplyEffect(p) /\ job[p].cmd.kind = "make"))
        => \A k \in Items : Total(k)' = Total(k)]_vars

\* what actor p has of item k, in hand and in its reservations
Held(p, k) ==
    LET own == {t \in DOMAIN RESERVED : RESERVED[t].pid = p}
    IN INVENTORY[p][k] + SumOver([t \in own |-> QtyIn(RESERVED[t].items, k)], own)

\* actor p has every quantity the bundle asks for
Affords(p, items) ==
    /\ items.isdict
    /\ \A k \in DOMAIN items.m :
        items.m[k].int /\ items.m[k].n >= 0 /\ INVENTORY[p][k] >= items.m[k].n

\* C3: over reserve and release calls without commit, every actor keeps of
\* every item what it had (in hand plus reserved, so in hand once all is
\* released); a release credits the bundle to its owner and a reserve the
\* actor cannot afford changes neither inventories nor reservations
C3_ReserveRelease ==
    [][/\ \A p \in Actors, k \in Items : Held(p, k)' = Held(p, k)
       /\ (RESERVED' = [t \in {} |-> 0]) =>
              \A p \in Actors, k \in Items : INVENTORY'[p][k] = Held(p, k)
       /\ \A p \in Proposers, items \in Bundles :
              (ReserveOp(p, items) /\ ~Affords(p, items))
                  => (INVENTORY' = INVENTORY /\ RESERVED' = RESERVED)]_vars

\* a bundle was reserved and released, and all is back in hand
C3_Witness ==
    /\ released # {}
    /\ RESERVED = [t \in {} |-> 0]
    /\ TX = MaxTx + 1
    /\ \E p \in Actors : INVENTORY[p]["bread"] = MaxQty /\ INVENTORY[p]["wood"] = MaxQty

\* C4: every quantity of the in-memory ledger is a non-negative integer
C4_NonNegative == \A p \in Actors, k \in Items : INVENTORY[p][k] \in Nat

\* a matched trade whose effects were applied down to a debit that would
\* have gone below zero
C4_Witness ==
    /\ Replied
    /\ LastReply.status = "matched"
    /\ LastReply.kind = "trade"
    /\ \E p \in Actors, k \in Items : INVENTORY[p][k] >= 2
    /\ \E p \in Actors, k \in Items :
        /\ INVENTORY[p][k] = 0
        /\ PENDING = [t \in {} |-> 0]
        /\ k \in {"bread", "wood"}
        /\ p = LastReply.from

\* C5: once an accept of T has returned matched, every later accept of T
\* returns error / unknown_txid and its handler changes no inventory (the
\* inventories are those the expiry sweep of the command left), and T never
\* names a pending offer again
C5_SingleCommit ==
    [][/\ matched' \cap DOMAIN PENDING' = {}
       /\ \A p \in Actors, cmd \in AcceptCmds :
              (Handles(p, cmd) /\ cmd.txid \in matched)
                  => /\ Answer(p).status = "error"
                     /\ Answer(p).reason = "unknown_txid"
                     /\ INVENTORY' = SweptInv]_vars

\* a second accept of a matched offer was answered while the next offer,
\* with the next transaction id, is pending
C5_Witness ==
    /\ Replied
    /\ LastCmd.kind = "accept"
    /\ LastCmd.txid \in matched
    /\ LastReply.reason = "unknown_txid"
    /\ PENDING # [t \in {} |-> 0]

\* C6: an accept, handled by process_structured_cmd, of an offer whose TTL
\* has elapsed when the accept reads the clock is answered rejected /
\* expired, and the offer is gone with its bundle back where it was taken
\* from
C6_ExpiredAccept ==
    [][\A p \in Actors, cmd \in AcceptCmds :
          (Handles(p, cmd) /\ cmd.txid \in ElapsedAtHandler)
              => /\ Answer(p).status = "rejected"
                 /\ Answer(p).reason = "expired"
                 /\ cmd.txid \notin DOMAIN PENDING'
                 /\ cmd.txid \notin DOMAIN RESERVED'
                 /\ INVENTORY' = Restored(Elapsed \cup {cmd.txid})]_vars

\* the quantity of item k the trade offer off moves to actor q when it is
\* matched: the give bundle to the counterparty, the want bundle from the
\* counterparty to the proposer
TradeDelta(off, q, k) ==
    (IF q = off.to THEN QtyIn(off.give, k) - QtyIn(off.want, k) ELSE 0)
    + (IF q = off.from THEN QtyIn(off.want, k) ELSE 0)

\* C7: when a trade offer of A to B (give G, want W) is matched, A has
\* changed by -G +W and B by +G -W against the state before the proposal,
\* and offer and reservation are gone: the proposal takes G from A, the
\* matching accept moves the bundles, and what B's command does after it
\* (applying the effects of the reply) changes no inventory
C7_MatchedTrade ==
    [][\A p \in Actors :
          /\ \A cmd \in TradeCmds :
                (Handles(p, cmd) /\ Answer(p).status = "accepted")
                    => \A q \in Actors, k \in Items :
                          INVENTORY'[q][k] =
                              SweptInv[q][k] - (IF q = p THEN QtyIn(cmd.give.m, k) ELSE 0)
          /\ \A cmd \in AcceptCmds :
                (/\ Handles(p, cmd)
                 /\ Answer(p).status = "matched"
                 /\ Answer(p).kind = "trade")
                    => /\ cmd.txid \notin (DOMAIN PENDING') \cup (DOMAIN RESERVED')
                       /\ \A q \in Actors, k \in Items :
                             INVENTORY'[q][k] =
                                 SweptInv[q][k] + TradeDelta(PENDING[cmd.txid], q, k)
          /\ (job[p].fx # <<>> /\ job[p].st.kind = "trade" /\ job'[p] # job[p])
                => INVENTORY' = INVENTORY]_vars

\* the squared distance of two actors with a Player object
Near(a, b) ==
    /\ pos[a] # NoPos
    /\ pos[b] # NoPos
    /\ (pos[a][1] - pos[b][1]) * (pos[a][1] - pos[b][1])
       + (pos[a][2] - pos[b][2]) * (pos[a][2] - pos[b][2]) <= 220 * 220

\* C8: an accept of a pending, unexpired trade offer is answered matched
\* exactly when the acceptor is the offer's counterparty, proposer and
\* counterparty are within 220 units and the counterparty holds the wanted
\* bundle; otherwise it is rejected with not_counterparty, not_in_range or
\* insufficient_inventory, the first of them that applies, and the offer
\* stays pending
C8_TradeCommit ==
    [][\A p \in Actors, cmd \in AcceptCmds :
          (/\ Handles(p, cmd)
           /\ cmd.txid \in (DOMAIN PENDING) \ ElapsedAtHandler
           /\ PENDING[cmd.txid].type = "trade")
              => LET off == PENDING[cmd.txid]
                     a == Answer(p)
                     near == Near(off.from, off.to)
                     has == \A k \in DOMAIN off.want :
                               /\ off.want[k].int
                               /\ off.want[k].n >= 0
                               /\ SweptInv[off.to][k] >= off.want[k].n
                 IN /\ (a.status = "matched") <=> (p = off.to /\ near /\ has)
                    /\ a.status = "matched" => cmd.txid \notin DOMAIN PENDING'
                    /\ a.status # "matched" =>
                          /\ a.status = "rejected"
                          /\ cmd.txid \in DOMAIN PENDING'
                          /\ a.reason = IF p # off.to THEN "not_counterparty"
                                        ELSE IF ~near THEN "not_in_range"
                                        ELSE "insufficient_inventory"]_vars

\* the counterparty, standing exactly 220 units from the proposer, was
\* answered matched
C8_Witness ==
    /\ Replied
    /\ LastCmd.kind = "accept"
    /\ LastReply.status = "matched"
    /\ LastReply.kind = "trade"
    /\ LastReply.from = "B"
    /\ pos["A"] = <<5000, 4000>>
    /\ pos["B"] = <<5132, 4176>>

\* a transaction id new_txid has not handed out (NoTx: no string at all)
NeverIssued(t) == t = NoTx \/ t >= TX

\* C9 as stated: an accept of a transaction id never issued is answered
\* error / unknown_txid, and the processing of the command leaves
\* inventories, reservations, pending offers and defense windows as they were
C9_NothingChanges ==
    [][\A p \in Actors, cmd \in AcceptCmds :
          (Handles(p, cmd) /\ NeverIssued(cmd.txid))
              => /\ Answer(p).status = "error"
                 /\ Answer(p).reason = "unknown_txid"
                 /\ UNCHANGED <<INVENTORY, RESERVED, PENDING, DEFENSE>>]_vars

\* C9: an accept of a transaction id never issued is answered error /
\* unknown_txid; the processing of the command leaves the defense windows as
\* they were, and inventories, reservations and pending offers as the expiry
\* sweep leaves them: the offers whose TTL has elapsed are gone, their bundles
\* back with their owners, and nothing else has changed
C9_UnknownAccept ==
    [][\A p \in Actors, cmd \in AcceptCmds :
          (Handles(p, cmd) /\ NeverIssued(cmd.txid))
              => /\ Answer(p).status = "error"
                 /\ Answer(p).reason = "unknown_txid"
                 /\ INVENTORY' = SweptInv
                 /\ RESERVED' = SweptRes
                 /\ PENDING' = SweptPend
                 /\ DEFENSE' = DEFENSE]_vars

\* an accept of the transaction id new_txid hands out next was answered
\* while an offer is pending and a defense window is armed
C9_Witness ==
    /\ Replied
    /\ LastCmd.kind = "accept"
    /\ LastCmd.txid = TX
    /\ LastReply.reason = "unknown_txid"
    /\ PENDING # [t \in {} |-> 0]
    /\ \E p \in Actors : DEFENSE[p] # NoWindow

MaxApplied(c, a) ==
    LET got == {s \in Seqs : applied[<<c, a, s>>] > 0}
    IN IF got = {} THEN -1 ELSE CHOOSE s \in got : \A x \in got : x <= s

\* the pair of consumer and pid the call of thread t is for
CallOf(t) == IF caller[t] = NoCall THEN caller'[t] ELSE caller[t]

\* C12: once seen() has accepted s for (consumer, pid), a later call for
\* that pair with a sequence number up to s returns True without writing a
\* watermark: a watermark is written only by a call whose sequence number is
\* above all those accepted for its pair, and no sequence number is accepted
\* twice
C12_Idempotent ==
    [][/\ \A x \in Consumers \X Actors \X Seqs : applied'[x] <= 1
       /\ \A t \in Threads :
              (/\ caller[t].pc = "test"
               /\ caller'[t] # caller[t]
               /\ caller[t].seq <= MaxApplied(caller[t].consumer, caller[t].pid))
                  => /\ caller'[t].pc = "exit"
                     /\ caller'[t].ret = TRUE
                     /\ SEQ'.by_consumer = SEQ.by_consumer
       /\ SEQ'.by_consumer # SEQ.by_consumer
              => \E t \in Threads :
                    /\ caller[t].pc = "set"
                    /\ caller'[t].pc = "exit"
                    /\ caller[t].seq > MaxApplied(caller[t].consumer, caller[t].pid)]_vars

\* sequence number 0 arrives after 1 was accepted for the same consumer and
\* pid, and seen() is about to return True
C12_Witness ==
    \E t \in Threads :
        /\ caller[t].pc = "exit"
        /\ caller[t].ret = TRUE
        /\ caller[t].seq = 0
        /\ applied[<<caller[t].consumer, caller[t].pid, 1>>] = 1
        /\ applied[<<caller[t].consumer, caller[t].pid, 0>>] = 0

\* C13: a call seen(c1, actor, seq) leaves the watermark of every other
\* consumer and of every other actor as it was, and what it returns is
\* decided by the sequence numbers accepted for (c1, actor) alone: it
\* accepts exactly the sequence numbers above them
C13_Independent ==
    [][\A t \in Threads :
          caller'[t] # caller[t]
              => /\ \A c \in Consumers, a \in Actors :
                        <<c, a>> # <<CallOf(t).consumer, CallOf(t).pid>>
                            => /\ (a \in DOMAIN SEQ'.by_consumer[c]) = (a \in DOMAIN SEQ.by_consumer[c])
                               /\ LastSeen(SEQ', c, a) = LastSeen(SEQ, c, a)
                 /\ caller[t].pc = "test"
                        => caller'[t].ret =
                               (caller[t].seq <= MaxApplied(caller[t].consumer, caller[t].pid))]_vars

\* both consumers have accepted sequence number 1 of actor A, each once,
\* and neither has a watermark for actor B
C13_Witness ==
    /\ \A c \in Consumers : applied[<<c, "A", 1>>] = 1 /\ LastSeen(SEQ, c, "A") = 1
    /\ \A c \in Consumers : "B" \notin DOMAIN SEQ.by_consumer[c]

\* C14: the watermark of each (consumer, actor) is the largest sequence
\* number accepted for the pair and never decreases; a call is accepted when
\* its sequence number is above the watermark stored as it writes, and
\* refused when it is not above the watermark stored as it returns
C14_Watermark ==
    [][/\ \A c \in Consumers, a \in Actors :
              /\ LastSeen(SEQ', c, a) = MaxApplied(c, a)'
              /\ LastSeen(SEQ', c, a) >= LastSeen(SEQ, c, a)
       /\ \A t \in Threads :
              /\ (caller[t].pc = "set" /\ caller'[t].pc = "exit")
                    => caller[t].seq > LastSeen(SEQ, caller[t].consumer, caller[t].pid)
              /\ (caller[t].pc = "test" /\ caller'[t].pc = "exit")
                    => caller[t].seq <= LastSeen(SEQ, caller[t].consumer, caller[t].pid)]_vars

\* a watermark has advanced twice, to 0 and then to 1
C14_Witness ==
    \E c \in Consumers, a \in Actors :
        /\ applied[<<c, a, 0>>] = 1
        /\ applied[<<c, a, 1>>] = 1
        /\ LastSeen(SEQ, c, a) = 1
        /\ SEQ.lock = NoThread

\* C15: process_structured_cmd returns a cmd_status for every command dict
\* and never raises, so that no command of any actor is left without its
\* one reply
C15_AlwaysReplies == unanswered = {}

\* the reasons of a business rejection
BusinessReasons ==
    {"insufficient_inventory", "not_in_range", "not_counterparty", "not_owner",
     "invalid_weapon", "invalid_defense", "unknown_recipe", "insufficient_inputs"}

\* C16: a command answered rejected for a business reason leaves
\* inventories, reservations, pending offers and defense windows as they
\* were before its handler ran, that is as the expiry sweep of the command
\* left them
C16_RejectedChangesNothing ==
    [][\A p \in Actors :
          (/\ OUTBOX = <<>>
           /\ OUTBOX' # <<>>
           /\ job' = job
           /\ Head(OUTBOX').st.from = p
           /\ Head(OUTBOX').st.status = "rejected"
           /\ Head(OUTBOX').st.reason \in BusinessReasons)
              => /\ INVENTORY' = SweptInv
                 /\ RESERVED' = SweptRes
                 /\ PENDING' = SweptPend
                 /\ DEFENSE' = DEFENSE]_vars

\* what a make command that is carried out whole adds to item k: every
\* listed output, less the dough each bread takes
Made(cmd, k) ==
    LET idx == 1 .. Len(cmd.items)
    IN SumOver([i \in idx |->
                   (IF cmd.items[i][1] = k THEN cmd.items[i][2].n ELSE 0)
                   - (IF cmd.items[i][1] = "bread" /\ k = "dough"
                      THEN cmd.items[i][2].n ELSE 0)], idx)

\* C17: a make command is carried out whole or not at all: it is answered
\* matched with every listed output produced and its inputs consumed, or
\* rejected / error with the inventories as they were
C17_MakeAllOrNothing ==
    [][\A p \in Actors, cmd \in MakeCmds :
          Handles(p, cmd)
              => IF Answer(p).status = "matched"
                 THEN \A q \in Actors, k \in Items :
                         INVENTORY'[q][k] =
                             SweptInv[q][k] + (IF q = p THEN Made(cmd, k) ELSE 0)
                 ELSE /\ Answer(p).status \in {"rejected", "error"}
                      /\ INVENTORY' = SweptInv]_vars

\* how much of item it one application of rec takes away and puts in
Debit(rec, it) ==
    LET m == MapOf(rec, "consume")
    IN SumOver([i \in 1 .. Len(m) |-> IF m[i][1] = it /\ m[i][2] > 0 THEN m[i][2] ELSE 0],
               1 .. Len(m))
Credit(rec, it) ==
    LET m == MapOf(rec, "produce")
    IN SumOver([i \in 1 .. Len(m) |-> IF m[i][1] = it /\ m[i][2] > 0 THEN m[i][2] ELSE 0],
               1 .. Len(m))
\* the table t with every consumed quantity of rec debited and every
\* produced quantity credited
Applied(t, rec) ==
    [it \in StoreItems |->
        IF Debit(rec, it) = 0 /\ Credit(rec, it) = 0
        THEN t[it]
        ELSE Row((IF t[it].row THEN t[it].qty ELSE 0) - Debit(rec, it) + Credit(rec, it))]

\* the await the coroutine is at finds less in the store than the recipe
\* requires or consumes
Lacks ==
    /\ co.pc \in {"pre", "recheck", "consume"}
    /\ inv_get_qty(db, MapOf(co.rec, co.pc)[co.i][1]) < MapOf(co.rec, co.pc)[co.i][2]

\* the step is apply_recipe returning
ApplyReturns == co.pc # "ret" /\ co'.pc = "ret"

Covers(t, rec) ==
    /\ \A i \in 1 .. Len(MapOf(rec, "recheck")) :
           LET need == MapOf(rec, "recheck")[i]
           IN need[2] > 0 => t[need[1]].row /\ t[need[1]].qty >= need[2]
    /\ \A it \in StoreItems :
           Debit(rec, it) > 0 => t[it].row /\ t[it].qty >= Debit(rec, it)

\* how many applications in a row the table t covers, counted up to h
RECURSIVE CoverCount(_, _, _)
CoverCount(t, rec, h) ==
    IF h = 0 \/ ~Covers(t, rec)
    THEN 0
    ELSE 1 + CoverCount(Applied(t, rec), rec, h - 1)

\* no table of the model covers that many applications of a recipe that
\* uses up its inputs
Horizon == MaxStock + 1

\* C19: handle_craft with times = "max" terminates for every recipe and
\* its count is the number of applications that succeeded, the largest n
\* the inventory covers.  Every application the "max" loop commits leaves
\* an inventory that covers fewer further applications than before, and
\* the crafted count handle_craft replies with is the number of
\* applications it committed.
C19_MaxCraft ==
    [][/\ co.mode = "max" /\ co.pc = "commit" /\ co'.pc = "ret" =>
              CoverCount(Committed(db'), co.rec, Horizon)
                  < CoverCount(Committed(db), co.rec, Horizon)
       /\ co.mode \in {"max", "times"} /\ co.pc = "ret" /\ co'.pc = "done" =>
              co'.reply.crafted = commits]_vars

\* C20: with a fixed combat rule table the damage of an attack is a
\* function of the weapon and of the effective defense tag of the defender
\* only: any two attacks answered matched with the same weapon against
\* the same effective defense tag carry the same health delta, whoever
\* attacked, whatever the inventories and the pending offers were and
\* whatever attacks came before.
C20_DamageFunction ==
    \A x \in blows, y \in blows :
        x.weapon = y.weapon /\ x.tag = y.tag => x.delta = y.delta

\* the knife has hit an undefended target for -5, and the attacks of A and
\* of B, both matched and both still in the effects applier, are the only
\* ones with the knife against a plate, while an offer is pending
C20_Witness ==
    /\ [weapon |-> "knife", tag |-> "none", delta |-> -5] \in blows
    /\ {x \in blows : x.weapon = "knife" /\ x.tag = "plate"}
           = {[weapon |-> "knife", tag |-> "plate", delta |-> -2]}
    /\ \A p \in {"A", "B"} :
           /\ job[p].cmd.kind = "attack"
           /\ job[p].cmd.with = "knife"
           /\ job[p].st.status = "matched"
           /\ job[p].fx[1].d["health"] = -2
    /\ DOMAIN PENDING # {}

\* the step just taken is an attack of p with cmd that was not rejected
Hits(p, cmd) ==
    /\ cmd.kind = "attack"
    /\ Handles(p, cmd)
    /\ Answer(p).status = "matched"

\* the base damage of a weapon and the multiplier of two tags (in halves)
\* as the combat rule table gives them
BaseDamage(weapon) ==
    IF weapon \in DOMAIN COMBAT.items /\ COMBAT.items[weapon].damage # 0
    THEN COMBAT.items[weapon].damage
    ELSE COMBAT.base_damage
AttackTagOrNone(weapon) ==
    IF weapon \in DOMAIN COMBAT.items /\ COMBAT.items[weapon].attack # ""
    THEN COMBAT.items[weapon].attack
    ELSE "none"
Multiplier(atk, dfn) ==
    IF atk \in DOMAIN COMBAT.opposition /\ dfn \in DOMAIN COMBAT.opposition[atk]
    THEN COMBAT.opposition[atk][dfn]
    ELSE 2
\* the integer nearest to h / 2, the even one of two that are as near
Nearest(h) ==
    CHOOSE n \in -10 .. 10 :
        /\ 2 * n - h \in -1 .. 1
        /\ (2 * n - h # 0 => n % 2 = 0)

\* C21: every in-range attack that is not rejected carries the health
\* effect -max(0, round(base_damage(weapon) * multiplier(attack tag or
\* none, defense tag))) on the defender, with multiplier 1 when a tag is
\* absent from the opposition matrix and the table-wide base damage for an
\* item without one; the delta is never positive.
C21_Damage ==
    [][\A p \in Actors, cmd \in FightCmds :
          Hits(p, cmd) =>
              LET e == job'[p].fx[1]
                  dmg == Nearest(BaseDamage(cmd.with)
                                   * Multiplier(AttackTagOrNone(cmd.with),
                                                EffectiveTag(DEFENSE, cmd.target, clock')))
              IN /\ Len(job'[p].fx) = 1
                 /\ e.fx = "health"
                 /\ e.pid = cmd.target
                 /\ e.d["health"] = -Max(0, dmg)
                 /\ e.d["health"] <= 0]_vars

\* the knife has hit the undefended B for -5, the herb of damage -1 for 0
\* and the fist the table does not know for the base damage
C21_Witness ==
    /\ [weapon |-> "knife", tag |-> "none", delta |-> -5] \in blows
    /\ [weapon |-> "herb", tag |-> "none", delta |-> 0] \in blows
    /\ [weapon |-> "fist", tag |-> "none", delta |-> -1] \in blows
    /\ [weapon |-> "knife", tag |-> "plate", delta |-> -2] \in blows

\* the defense tag the combat rule table gives an item, "none" without one
DefenseTagOf(item) ==
    IF item \in DOMAIN COMBAT.items /\ COMBAT.items[item].defense # ""
    THEN COMBAT.items[item].defense
    ELSE "none"

\* C22: an attack resolved at time t uses the defense tag of the item the
\* defender armed with its most recent successful counter iff t is at most
\* 1000 ms after that counter, and uses the tag none if it is later or the
\* defender never armed; an attack inside the window leaves the window as
\* it is, so every attack inside it sees the same defense.
C22_Window ==
    [][\A p \in Actors, cmd \in FightCmds :
          Hits(p, cmd) =>
              LET last == armed[cmd.target]
                  inside == last # NeverArmed /\ clock' <= last.at + 1000
              IN /\ job'[p].fx[1].combat.defense
                        = IF inside THEN DefenseTagOf(last.item) ELSE "none"
                 /\ inside => DEFENSE'[cmd.target] = DEFENSE[cmd.target]
                              /\ armed' = armed]_vars

\* B armed the plate at 0: the knife met the plate while the window
\* lasted, and the attack of A now in the effects applier, resolved after
\* its end, met no defense
C22_Witness ==
    /\ armed["B"] = [item |-> "plate_iron", at |-> 0]
    /\ [weapon |-> "knife", tag |-> "plate", delta |-> -2] \in blows
    /\ job["A"].cmd.kind = "attack"
    /\ job["A"].cmd.with = "knife"
    /\ job["A"].fx[1].combat.defense = "none"
    /\ job["A"].fx[1].d["health"] = -5

\* the step just taken is _apply_effects_to_db going on for the command of
\* actor p: the store took an entry of the effects, or raised
Applies(p) == job[p] # Idle /\ job'[p] # job[p]

\* C23: once a command is handled end to end the in-memory ledger holds
\* what its handler computed, every inventory delta of the reply's effects
\* being in it exactly once: the handler has put the deltas in, so no step
\* of _apply_effects_to_db changes a quantity of the ledger.
C23_LedgerOnce ==
    [][\A p \in Actors : Applies(p) => INVENTORY' = INVENTORY]_vars

\* every offer has reached a terminal state and no command is in the
\* effects applier
Settled == DOMAIN PENDING = {} /\ \A p \in Actors : job[p] = Idle

\* what the store holds of item k over all actors, and what the actors
\* that have joined were seeded with
PersistedTotal(k) == SumOver([p \in Actors |-> DB[p][k]], Actors)
SeededTotal(k) ==
    SumOver([p \in Actors |-> IF pos[p] # NoPos THEN StartInv[p][k] ELSE 0], Actors)

\* C24: the persisted inventory is a lagging mirror of the in-memory
\* ledger: once every pending offer is terminal and every effects
\* application has completed, without failure, the persisted quantity of
\* every actor and item is the quantity of the ledger, and after matched
\* trades and matched learn/teach the persisted total of every item is what
\* it was.
C24_LaggingMirror ==
    Settled =>
        /\ \A p \in Actors, k \in Items : DB[p][k] = INVENTORY[p][k]
        /\ \A k \in Items : PersistedTotal(k) = SeededTotal(k)

\* the step just taken is _apply_effects_to_db raising for the command of
\* actor p: the entry it was at changes quantities and the store did not
\* take it
StoreRaised(p) ==
    /\ Applies(p)
    /\ Head(job[p].fx).fx = "inventory"
    /\ \E k \in DOMAIN Head(job[p].fx).d : Head(job[p].fx).d[k].n > 0
    /\ DB' = DB

\* C25: if the persistence step of a command fails, the in-memory
\* mutations the handler made are kept (ledger, reservations and offers
\* stay as they are), the reply of the command is enqueued, once, and the
\* handler is through, so that the next command of the actor is taken.
C25_PersistFailure ==
    [][\A p \in Actors :
          StoreRaised(p) =>
              /\ INVENTORY' = INVENTORY
              /\ RESERVED' = RESERVED
              /\ PENDING' = PENDING
              /\ OUTBOX' = Append(OUTBOX, Sent(job[p].st, job[p].cmd))
              /\ job'[p] = Idle
              /\ \A q \in Actors \ {p} : job'[q] = job[q]]_vars

\* the reply of a matched trade is in the outbox, the ledger holds what
\* the handler made of it and the store still holds what the actors were
\* seeded with
C25_Witness ==
    /\ Replied
    /\ LastReply.status = "matched"
    /\ LastReply.kind = "trade"
    /\ \A p \in Proposers : DB[p] = StartInv[p]
    /\ INVENTORY["A"]["wood"] = 1
    /\ INVENTORY["B"]["bread"] = 1
    /\ \A p \in Actors : job[p] = Idle

\* C26: a call of drain_replies removes at most 8 replies, the oldest
\* ones, and returns them in the order they were enqueued; over any
\* interleaving of enqueue_reply and drain_replies the replies returned so
\* far followed by the ones still queued are exactly the replies enqueued,
\* in the order of enqueueing: none is lost, none comes twice, none
\* overtakes another.
C26_Drain ==
    /\ [](enqueued = drained \o OUTBOX)
    /\ [][drained' # drained =>
             \E n \in 1..8 :
                 /\ n <= Len(OUTBOX)
                 /\ n < 8 => n = Len(OUTBOX)
                 /\ drained' = drained \o SubSeq(OUTBOX, 1, n)
                 /\ OUTBOX' = SubSeq(OUTBOX, n + 1, Len(OUTBOX))]_vars

\* a drain has taken 8 replies out of more than 8, and the rest waits
C26_Witness ==
    /\ Len(drained) = 8
    /\ Len(OUTBOX) >= 1
    /\ Len(enqueued) > 8

\* C27: the outbox is bounded: however many replies are enqueued, the
\* queue holds fewer than that, replies beyond its capacity being dropped.
C27_Bounded == Len(OUTBOX) < MaxBox

\* db_models inv_has on a table of the store, for a bundle of integer
\* quantities: an entry asking for 0 or less is skipped, any other is read
\* with inv_get_qty (no row reads as 0)
inv_has_db(tab, pid, need) ==
    \A k \in DOMAIN need.m : need.m[k].n > 0 => tab[pid][k] >= need.m[k].n

\* the bundles has() is asked about: up to two items, quantities from -1
HasBundles ==
    { Dict(m) : m \in UNION { [S -> { Q(n) : n \in -1..MaxQty }] :
                                S \in { T \in SUBSET Items : Cardinality(T) <= 2 } } }

\* C28: has(actor, bundle) of the ledger is true iff the actor holds every
\* item the bundle asks a positive quantity of in at least that quantity,
\* entries asking for 0 or less being satisfied; and inv_has of gm_cmds
\* and inv_has of db_models, asked about the same holdings, agree on every
\* bundle.
C28_Has ==
    \A p \in Actors, need \in HasBundles :
        /\ inv_has(INVENTORY, p, need)
               <=> (\A k \in DOMAIN need.m :
                        need.m[k].n > 0 => INVENTORY[p][k] >= need.m[k].n)
        /\ inv_has(INVENTORY, p, need) <=> inv_has_db(INVENTORY, p, need)

\* the step just taken is insert_or_ignore(**params), called directly or by
\* get_or_create
Inserts(params) ==
    \/ InsertOrIgnore(params)
    \/ GocInsert /\ Params(goc.kwargs, goc.defaults) = params

C30_GetOrCreate ==
    [][/\ (goc.pc = "find" /\ find(table, goc.kwargs) # <<>>) =>
              /\ table' = table
              /\ goc'.pc = "done"
              /\ goc'.ret = Got(Head(find(table, goc.kwargs)), FALSE)
       /\ (goc.pc = "insert" /\ goc'.pc # "insert") =>
              table' = Append(table, RowOf(Params(goc.kwargs, goc.defaults)))
       /\ (goc.pc \in {"created", "fallback"} /\ goc'.pc # goc.pc) =>
              /\ goc'.pc = "done"
              /\ goc'.ret = Got(RowOf(Params(goc.kwargs, goc.defaults)), TRUE)
              /\ Len(find(table', goc.kwargs)) = 1]_vars

\* the step just taken is process_structured_cmd for a command of actor p:
\* its reply is out, its handler is suspended on the store, or it raised
Processed(p) ==
    /\ OUTBOX = <<>>
    /\ job[p] = Idle
    /\ \/ OUTBOX' # <<>> /\ job' = job /\ Head(OUTBOX').st.from = p
       \/ job'[p] # Idle
       \/ p \in unanswered' \ unanswered

\* the actors an offer taken out by the handler of the step, not by the
\* sweep, moves items between
Parties ==
    UNION { {PENDING[t].from, PENDING[t].to} :
                t \in ((DOMAIN PENDING) \ (DOMAIN PENDING')) \ Elapsed }

\* C31: the expiry sweep runs at the start of every process_structured_cmd
\* call: once a command is processed no offer is pending whose TTL had
\* elapsed when the call read the clock, the reservation of every such
\* offer is gone and its bundle back in the hands of the reservation's
\* owner (every actor no commit of this command moves items of holds, in
\* hand plus reserved, what it held), and the step enqueues no reply but
\* the one of the command.
C31_Sweep ==
    [][\A p \in Actors :
          Processed(p) =>
              /\ \A t \in Elapsed : t \notin DOMAIN PENDING' /\ t \notin DOMAIN RESERVED'
              /\ \A q \in Actors \ Parties, k \in Items : Held(q, k)' = Held(q, k)
              /\ Len(OUTBOX') + Cardinality({q \in Actors : job'[q] # job[q]}) <= 1]_vars

\* a second offer was answered after the TTL of the first had elapsed: the
\* first is gone, unmatched, and its bundle is back in the proposer's hands
C31_Witness ==
    /\ Replied
    /\ LastCmd.kind = "trade"
    /\ LastReply.status = "accepted"
    /\ LastReply.txid = 2
    /\ clock = OFFER_TTL_MS + 1
    /\ DOMAIN PENDING = {2}
    /\ PENDING[2].ts >= OFFER_TTL_MS
    /\ matched = {}
    /\ \A k \in Items : Held(LastReply.from, k) = StartInv[LastReply.from][k]

\* offer t is out of PENDING and its reservation is out of RESERVED, which
\* release and consume leave only after crediting the bundle
Terminal(t) == t \notin DOMAIN PENDING /\ t \notin DOMAIN RESERVED

\* offer t is pending and was made early enough for its TTL to elapse
\* within the times of the model
PendingEarly(t) == t \in DOMAIN PENDING /\ PENDING[t].ts = 0

CounterOf == {cmd \in FightCmds : cmd.kind = "counter"}

\* C33: a counter arms the defense window of the actor that sends it and
\* of no other, whatever target it names; when the table requires a tagged
\* defense and the item has the tag none, the counter is rejected with
\* invalid_defense and every window, the sender's armed before included,
\* stays as it is (item and end); otherwise it is accepted and the
\* sender's window holds the item.
C33_CounterSelf ==
    [][\A p \in Actors, cmd \in CounterOf :
          Handles(p, cmd) =>
              /\ \A q \in Actors \ {p} : DEFENSE'[q] = DEFENSE[q]
              /\ IF COMBAT.defense_power /\ DefenseTagOf(cmd.with) = "none"
                 THEN /\ Answer(p).status = "rejected"
                      /\ Answer(p).reason = "invalid_defense"
                      /\ DEFENSE' = DEFENSE
                 ELSE /\ Answer(p).status = "accepted"
                      /\ DEFENSE'[p].item = cmd.with
                      /\ DEFENSE'[p].until = clock' + DEFENSE_MS]_vars

\* an actor other than the target named armed the plate and then sent a
\* counter with the knife: it was rejected, its window still holds the
\* plate, and the target named has no window
C33_Witness ==
    /\ Replied
    /\ LastCmd.kind = "counter"
    /\ LastCmd.with = "knife"
    /\ LastReply.reason = "invalid_defense"
    /\ LastReply.from # LastCmd.target
    /\ DEFENSE[LastReply.from].item = "plate_iron"
    /\ DEFENSE[LastCmd.target] = NoWindow

\* the attacks that are well-formed: target and weapon are strings
WellFormed == {cmd \in AttackCmds : cmd.target # NoStr /\ cmd.with # NoStr}

\* the weapon passes the table's requirement of an attack tag
ValidWeapon(weapon) == ~COMBAT.attack_power \/ AttackTagOrNone(weapon) # "none"

\* the target has no defense window that lasts at the time the handler reads
Undefended(q) == DEFENSE[q] = NoWindow \/ clock' > DEFENSE[q].until

\* C34: a well-formed attack is rejected only with not_in_range, which is
\* tested first, and with invalid_weapon; with a valid weapon on a target
\* in range it is matched, and when the target has no active defense
\* window it is matched against the tag none, requires.defense_power of
\* the table notwithstanding, with the health effect of that tag.
C34_UndefendedProceeds ==
    [][\A p \in Actors, cmd \in WellFormed :
          Handles(p, cmd) =>
              IF ~Near(p, cmd.target)
              THEN Answer(p).status = "rejected" /\ Answer(p).reason = "not_in_range"
              ELSE IF ~ValidWeapon(cmd.with)
              THEN Answer(p).status = "rejected" /\ Answer(p).reason = "invalid_weapon"
              ELSE /\ Answer(p).status = "matched"
                   /\ job'[p].fx[1].fx = "health"
                   /\ Undefended(cmd.target) =>
                        /\ job'[p].fx[1].combat.defense = "none"
                        /\ job'[p].fx[1].d["health"]
                             = -Max(0, Nearest(BaseDamage(cmd.with)
                                   * Multiplier(AttackTagOrNone(cmd.with), "none")))]_vars

\* the table requires a tagged defense, B never armed one, and the attack
\* of A on B with the knife is matched against none for -5; an attack out
\* of range was rejected before
C34_Witness ==
    /\ COMBAT.defense_power
    /\ DEFENSE["B"] = NoWindow
    /\ armed["B"] = NeverArmed
    /\ job["A"].cmd = [kind |-> "attack", target |-> "B", with |-> "knife"]
    /\ job["A"].st.status = "matched"
    /\ job["A"].fx[1].combat.defense = "none"
    /\ job["A"].fx[1].d["health"] = -5

\* the command of actor q is between its first and its last mutation of
\* the ledger: its handler has returned and _apply_effects_to_db has an
\* inventory entry still to mirror
Midway(q) ==
    /\ job[q] # Idle
    /\ \E i \in 1..Len(job[q].fx) : job[q].fx[i].fx = "inventory"

\* C35: the processing of one command is atomic on ledger, offers and
\* defense windows: while a command is between its first and its last
\* mutation (the mirror of its effects into the ledger included) no
\* command of another actor is processed and no expiry sweep runs; and the
\* commands of one actor take effect in arrival order, a reply that leaves
\* while a command of the actor is underway being the reply of that one.
C35_Atomic ==
    [][\A q \in Actors :
          /\ Midway(q) => \A p \in Actors \ {q} : ~Processed(p)
          /\ (job[q] # Idle /\ job'[q] = Idle)
                => OUTBOX' = Append(OUTBOX, Sent(job[q].st, job[q].cmd))]_vars

\* the position of the player is within the map, a radius off its borders
InMap ==
    /\ walker.x >= PLAYER_RADIUS * 1000
    /\ walker.x <= (MAP_W - PLAYER_RADIUS) * 1000
    /\ walker.y >= PLAYER_RADIUS * 1000
    /\ walker.y <= (MAP_H - PLAYER_RADIUS) * 1000

\* C36: from spawn and after any sequence of simulation steps with any
\* keys held, PLAYER_RADIUS <= x <= MAP_W - PLAYER_RADIUS and PLAYER_RADIUS
\* <= y <= MAP_H - PLAYER_RADIUS; a step with a and d held together leaves
\* x as it is, one with w and s held together leaves y as it is.
C36_InMap ==
    /\ [](walker # NoWalker => InMap)
    /\ [][walked' = walked + 1 /\ walked > 0 =>
             /\ {"a", "d"} \subseteq walker.keys => walker'.x = walker.x
             /\ {"w", "s"} \subseteq walker.keys => walker'.y = walker.y]_vars

\* the player stands on the right and lower border with d and s held and
\* has been stepped against them
C36_Witness ==
    /\ walker.x = (MAP_W - PLAYER_RADIUS) * 1000
    /\ walker.y = (MAP_H - PLAYER_RADIUS) * 1000
    /\ walker.keys = {"d", "s"}
    /\ walked = MaxWalk + 1

\* C37: a player has at most one pending overlay, and a snapshot at most one
\* overlay of the player; a chat that is accepted gets a sequence number
\* greater than every number the player was given before; a snapshot holds
\* an overlay only when the overlay ends after the time of the snapshot, and
\* an overlay that was found expired is in no snapshot and is not pending
C37_Overlay ==
    /\ [](/\ Cardinality(snapshot.overlays) <= 1
          /\ \A o \in snapshot.overlays :
                 /\ o.t_expire > snapshot.at
                 /\ o.seq \notin lapsed
          /\ walker.overlay # NoOverlay =>
                 /\ walker.overlay.seq = walker.ov_seq
                 /\ walker.overlay.seq \notin lapsed)
    /\ [][given' # given =>
             /\ walker'.overlay.seq = walker'.ov_seq
             /\ given' = given \cup {walker'.ov_seq}
             /\ \A n \in given : walker'.ov_seq > n]_vars

\* a second chat was found expired by a snapshot after an earlier one was shown
C37_Witness ==
    /\ given = {1, 2}
    /\ lapsed = {2}
    /\ snapshot.overlays = {}
    /\ walker.overlay = NoOverlay

\* C38: the body of a coroutine wrapped by send_on_keypress has run at most
\* as often as the key was latched; a poll consumes the latch it finds (the
\* next poll finds none unless the key is latched again) and a poll that
\* finds no latch gives None; the key is latched only in the first frame of
\* a stretch of frames in which it is held
C38_OncePerEdge ==
    /\ [](ran.bodies <= ran.latches)
    /\ [][ran'.polls # ran.polls =>
             \E name \in KeyNames :
                 /\ ~_KEY_LATCH'[name]
                 /\ _KEY_LATCH[name] => ran'.bodies = ran.bodies + 1
                 /\ ~_KEY_LATCH[name] =>
                        ran'.bodies = ran.bodies /\ ran'.out = "None"]_vars
    /\ [][ran'.latches # ran.latches =>
             \E name \in ui.pressed : ui.run[name] = 1]_vars

\* the key was held for all the frames, latched once, and polled all the
\* times: one body ran, the last poll gave None
C38_Witness ==
    /\ ui.frames = MaxFrames
    /\ ui.run["e"] = ui.frames
    /\ ui.pc = "frame"
    /\ ran.latches = 1
    /\ ran.polls > 1
    /\ ran.bodies = 1
    /\ ran.out = "None"

\* C39: a command of an actor takes nothing out of the inventory of another
\* actor: once process_structured_cmd has handled a command of p, every
\* other actor has in hand at least what it had
C39_OwnCommandOnly ==
    [][\A p \in Actors :
          Processed(p) =>
              \A q \in Actors \ {p}, k \in Items :
                  INVENTORY'[q][k] >= INVENTORY[q][k]]_vars

\* C40: when two coroutines whose statements interleaved in inv_add (one
\* read the row between the read and the write of the other) have left
\* it, the quantity in the store is the quantity before them plus the two
\* deltas, or zero if that is negative
C40_NoLostUpdate ==
    (/\ \A c \in Coroutines : adds[c].pc \in {"done", "raised"}
     /\ \E c \in Coroutines : adds[c].met)
        => inv_get_qty([rows |-> [it \in {"bread"} |-> inventories]], "bread")
               = Max(0, (IF seeded.row THEN seeded.qty ELSE 0)
                        + adds["c1"].delta + adds["c2"].delta)

====
